---- MODULE Spec2Model ----
(***************************************************************************)
(* Model of moveit_servo's ServoCalcs (servo_calcs.cpp): the worker thread  *)
(* running mainCalcLoop / calculateSingleIteration, the command callbacks,  *)
(* start(), stop() and setPaused().                                         *)
(*                                                                          *)
(* Quantities are integers: a position is a count of position quanta, the   *)
(* publish period is one time unit, so a velocity is a position difference  *)
(* per period.  Scale factors in [0,1] are counted in 1/ScaleDen steps.     *)
(***************************************************************************)
EXTENDS Integers, Sequences, FiniteSets, TLC

(***************************************************************************)
(* Bounds of the model                                                      *)
(***************************************************************************)
\* std::numeric_limits<int>::max() of the narrowed int of zero_velocity_count_
IntMax == 3

(***************************************************************************)
(* The robot: joint group, limits, parameters                               *)
(***************************************************************************)
num_joints_ == 2
Joints == 1..num_joints_

\* position bounds of every joint (limits[0].min_position / max_position)
min_position == 0
max_position == 4
\* parameters_->joint_limit_margin
joint_limit_margin == 1
\* per-joint velocity bound, in position quanta per publish period
max_velocity == 1
\* parameters_->publish_period, in clock units per cycle
publish_period == 1
\* parameters_->incoming_command_timeout, in clock ticks
incoming_command_timeout == 1
\* velocities are whole quanta per period, far coarser than 1e-4 rad/s:
\* v > STOPPED_VELOCITY_EPS iff v >= 1
STOPPED_VELOCITY_EPS == 0
\* denominator of the fixed-point scale factors
ScaleDen == 2

\* a header stamp is rclcpp::Time(0) or the sender's clock at sending
Stamped == 1

\* the parameters of a node in normal mode that publishes positions and
\* velocities and a bounded number of halt messages
DefaultParameters ==
  [ low_latency_mode |-> FALSE,
    num_outgoing_halt_msgs_to_publish |-> 1,
    publish_joint_positions |-> TRUE,
    publish_joint_velocities |-> TRUE,
    publish_joint_accelerations |-> FALSE,
    command_in_type |-> "speed_units",
    halt_all_joints_in_joint_mode |-> FALSE,
    halt_all_joints_in_cartesian_mode |-> TRUE ]

\* the same node asked to republish forever (0 halt messages)
RepublishForeverParameters ==
  [DefaultParameters EXCEPT !.num_outgoing_halt_msgs_to_publish = 0]

\* the same node in low latency mode
LowLatencyParameters == [DefaultParameters EXCEPT !.low_latency_mode = TRUE]

(***************************************************************************)
(* Arithmetic helpers                                                       *)
(***************************************************************************)
Abs(x) == IF x < 0 THEN -x ELSE x

\* C++ conversion of a quotient to a whole number of quanta: toward zero
TruncDiv(a, b) == IF a >= 0 THEN a \div b ELSE -((-a) \div b)

Zeros(n) == [i \in 1..n |-> 0]

(***************************************************************************)
(* Messages                                                                 *)
(***************************************************************************)
\* a default-constructed TwistStamped / JointJog: stamp 0, all components 0
ZeroTwist == <<0, 0, 0, 0, 0, 0>>
DefaultTwistStamped == [stamp |-> 0, twist |-> ZeroTwist]
\* the names of the joints of the group, and joint_state_name_map_ as the
\* constructor fills it: the index of each name
GroupJointNames == <<"joint_1", "joint_2">>
joint_state_name_map_ ==
  [name \in {GroupJointNames[i] : i \in Joints} |->
     CHOOSE i \in Joints : GroupJointNames[i] = name]

\* a JointJog with a velocity for each joint of the group, in their order
JointJog(stamp, velocities) ==
  [stamp |-> stamp, joint_names |-> GroupJointNames, velocities |-> velocities]

DefaultJointJog == JointJog(0, Zeros(num_joints_))

\* the twists and joint jogs the callers send (speed units): a zero command
\* of each type, a twist that lowers joint 1 and a jog that raises it
TwistCommands == {ZeroTwist, <<-1, 0, 0, 0, 0, 0>>}
JointJogCommands == {<<0, 0>>, <<3, 0>>}

\* a trajectory holding no point
NoTrajectory == <<>>

\* isNonZero(TwistStamped)
isNonZeroTwist(msg) == \E i \in 1..6 : msg.twist[i] # 0

\* isNonZero(JointJog)
isNonZeroJog(msg) == ~(\A i \in 1..Len(msg.velocities) : msg.velocities[i] = 0)

VARIABLES
  parameters,                    \* parameters_
  robot_position,                \* the state monitor's current joint positions
  \* the latest-message pointers: <<>> is a null pointer, <<m>> points to m
  latest_twist_stamped_, latest_twist_cmd_is_nonzero_,
  latest_joint_cmd_, latest_joint_cmd_is_nonzero_,
  \* node_->now() - latest_twist_command_stamp_ and node_->now() -
  \* latest_joint_command_stamp_, in clock ticks, saturated at the timeout
  twist_command_age, joint_command_age,
  \* history: the most recently arrived command of each type with the time
  \* since its stamp (saturated at the timeout), whether a command with a
  \* nonzero stamp has arrived, and in low latency mode whether a command has
  \* arrived in the lifetime of the worker thread that no iteration has begun
  \* after
  arrived,
  collision_velocity_scale_,
  drift_dimensions_,             \* the six flags of the dimensions allowed to drift
  \* the change_drift_dimensions call in progress: <<>> or <<[req, next]>>,
  \* next the flag that the service thread writes next
  drift_request,
  \* the call of RuckigSmoothing::applySmoothing in progress, its arguments,
  \* locals and result
  smoothing,
  stop_requested_, paused_, new_input_cmd_,
  main_loop_mutex_,              \* "free" or the holder
  thread_,                       \* position of the worker thread
  caller,                        \* position of the thread calling start()/stop()
  status_, wait_for_servo_commands_, done_stopping_, zero_velocity_count_,
  ok_to_publish_, updated_filters_,
  twist_command_is_stale_, joint_command_is_stale_,
  original_joint_state_, internal_joint_state_, delta_theta_,
  joint_trajectory, last_sent_command_,
  smoother_,                     \* the smoothing filter's internal state
  cycle                          \* what the current cycle has done so far

cmdVars == <<latest_twist_stamped_, latest_twist_cmd_is_nonzero_, twist_command_age,
             latest_joint_cmd_, latest_joint_cmd_is_nonzero_, joint_command_age, arrived>>
scratchVars == <<twist_command_is_stale_, joint_command_is_stale_>>

\* The worker's copies of the latest commands (calculateSingleIteration, lines
\* 350-362).  They are taken and used while the worker holds main_loop_mutex_,
\* which both command callbacks take, so during a cycle each copy equals the
\* latest value; a null pointer leaves the default-constructed message.
twist_stamped_cmd_ ==
  IF latest_twist_stamped_ # <<>> THEN latest_twist_stamped_[1] ELSE DefaultTwistStamped
joint_servo_cmd_ ==
  IF latest_joint_cmd_ # <<>> THEN latest_joint_cmd_[1] ELSE DefaultJointJog
have_nonzero_twist_stamped_ == latest_twist_cmd_is_nonzero_
have_nonzero_joint_command_ == latest_joint_cmd_is_nonzero_
have_nonzero_command_ == have_nonzero_twist_stamped_ \/ have_nonzero_joint_command_
loopVars == <<status_, wait_for_servo_commands_, done_stopping_, zero_velocity_count_,
              ok_to_publish_, updated_filters_>>
jointVars == <<original_joint_state_, internal_joint_state_, delta_theta_,
               joint_trajectory, last_sent_command_, smoother_>>
envVars == <<parameters, robot_position, collision_velocity_scale_, drift_dimensions_,
            drift_request, smoothing>>
threadVars == <<stop_requested_, paused_, new_input_cmd_, main_loop_mutex_, thread_, caller>>

vars == <<cmdVars, scratchVars, loopVars, jointVars, envVars, threadVars, cycle>>

\* the record of a cycle that has not published or computed anything yet
NewCycle == [log |-> <<>>, path |-> "none", skipped |-> FALSE, halt |-> FALSE,
             collision_scale |-> ScaleDen, waiting_at_check |-> FALSE,
             paused_at_check |-> FALSE,
             \* the call of velocityScalingFactorForSingularity, if the cycle made
             \* one, kept until the cycle publishes
             singularity |-> <<>>,
             \* the call of enforcePositionLimits, if the cycle made one
             position_limits |-> <<>>,
             \* the call of removeDriftDimensions, if the cycle made one
             drift |-> <<>>]

(***************************************************************************)
(* RuckigSmoothing::applySmoothing                                          *)
(*                                                                         *)
(* Positions in 1e-3 rad, velocities in 5e-3 rad/s, times in ms,            *)
(* accelerations in velocity units per ms.  The group has two bounded       *)
(* joints and no continuous joint: trajectory.unwind() changes nothing.     *)
(***************************************************************************)
IDENTICAL_POSITION_EPSILON == 1
MINIMUM_VELOCITY_SEARCH_MAGNITUDE == 2
DEFAULT_RUCKIG_TIMESTEP == 1
num_dof == 2
Dofs == 1..num_dof

\* the longest trajectory passed to applySmoothing; the number of calls of the
\* generator after which a call of applySmoothing is not followed further
MaxWaypoints == 3
MaxUpdates == 3

\* A target velocity or acceleration: value[joint] / 10^places, the exact
\* result of multiplying a vector of whole units by 0.9 places times
Decimal(v) == [value |-> v, places |-> 0]

RECURSIVE Pow(_, _)
Pow(b, k) == IF k = 0 THEN 1 ELSE b * Pow(b, k - 1)

SameDecimal(a, b) ==
  \A joint \in Dofs : a.value[joint] * Pow(10, b.places) = b.value[joint] * Pow(10, a.places)

\* a waypoint (a RobotState of the group) and a trajectory of waypoints
State(position, velocity) ==
  [position |-> position, velocity |-> velocity, acceleration |-> Zeros(num_dof)]

addSuffixWayPoint(trajectory, state, dt) ==
  Append(trajectory, [state |-> state, duration_from_previous |-> dt])

\* RobotState::distance over the group
distance(a, b) ==
  LET RECURSIVE Sum(_)
      Sum(joint) == IF joint = 0 THEN 0
                    ELSE Abs(a.position[joint] - b.position[joint]) + Sum(joint - 1)
  IN  Sum(num_dof)

checkForIdenticalWaypoints(prev_waypoint, target_waypoint) ==
  distance(prev_waypoint, target_waypoint) <= IDENTICAL_POSITION_EPSILON

\* The loop "Remove repeated waypoints" from waypoint_idx on (an index from 0):
\* a waypoint that differs from its successor is added at the end of the
\* trajectory that the loop runs over
RECURSIVE removeRepeatedWaypoints(_, _, _)
removeRepeatedWaypoints(trajectory, waypoint_idx, num_waypoints) ==
  IF waypoint_idx >= num_waypoints - 1 THEN trajectory
  ELSE removeRepeatedWaypoints(
         IF checkForIdenticalWaypoints(trajectory[waypoint_idx + 1].state,
                                       trajectory[waypoint_idx + 2].state)
           THEN trajectory
           ELSE addSuffixWayPoint(trajectory, trajectory[waypoint_idx + 1].state,
                                  trajectory[waypoint_idx + 1].duration_from_previous),
         waypoint_idx + 1, num_waypoints)

\* RobotTrajectory::getAverageSegmentDuration() < DEFAULT_RUCKIG_TIMESTEP
AverageSegmentDurationTooShort(trajectory) ==
  LET RECURSIVE getDuration(_)
      getDuration(i) == IF i = 0 THEN 0
                        ELSE trajectory[i].duration_from_previous + getDuration(i - 1)
  IN  getDuration(Len(trajectory)) < DEFAULT_RUCKIG_TIMESTEP * Len(trajectory)

\* ruckig::InputParameter as constructed, then initializeRuckigState
initializeRuckigState(first_waypoint) ==
  [input |-> [current_position |-> first_waypoint.position,
              current_velocity |-> first_waypoint.velocity,
              current_acceleration |-> first_waypoint.acceleration,
              target_position |-> Zeros(num_dof),
              target_velocity |-> Decimal(Zeros(num_dof)),
              target_acceleration |-> Decimal(Zeros(num_dof))],
   output |-> [new_position |-> first_waypoint.position,
               new_velocity |-> first_waypoint.velocity,
               new_acceleration |-> first_waypoint.acceleration]]

\* Ruckig::update, a library: it reports result, and unless that is an error
\* it writes a new state, at the target position when it reports Finished
RuckigResults == {"Working", "Finished", "Error"}
NewVelocities == {<<0, 0>>, <<3, 0>>, <<-1, 1>>}

update(ruckig_input, ruckig_output, result, new_velocity) ==
  IF result = "Error" THEN ruckig_output
  ELSE [new_position |-> IF result = "Finished" THEN ruckig_input.target_position
                         ELSE ruckig_input.current_position,
        new_velocity |-> new_velocity,
        new_acceleration |-> Zeros(num_dof)]

\* new_velocity / target_velocity < 1 in IEEE arithmetic: a quotient by zero
\* is -inf for a negative dividend, +inf or NaN otherwise
checkForLaggingMotion(ruckig_input, ruckig_output) ==
  \E joint \in Dofs :
    LET target == ruckig_input.target_velocity.value[joint]
        new == ruckig_output.new_velocity[joint] * Pow(10, ruckig_input.target_velocity.places)
    IN  IF target = 0 THEN new < 0
        ELSE IF target > 0 THEN new < target
        ELSE new > target

\* "decrease target velocity": target_velocity *= 0.9 and
\* target_acceleration = (target_velocity - new_velocity) / DEFAULT_RUCKIG_TIMESTEP
decreaseTargetVelocity(ruckig_input, ruckig_output) ==
  LET places == ruckig_input.target_velocity.places + 1
      target_velocity == [joint \in Dofs |-> ruckig_input.target_velocity.value[joint] * 9]
  IN  [ruckig_input EXCEPT
         !.target_velocity = [value |-> target_velocity, places |-> places],
         !.target_acceleration =
            [value |-> [joint \in Dofs |->
                          TruncDiv(target_velocity[joint]
                                     - ruckig_output.new_velocity[joint] * Pow(10, places),
                                   DEFAULT_RUCKIG_TIMESTEP)],
             places |-> places]]

\* the magnitude as the sum of the squares of the values, with their places
getTargetVelocityMagnitude(ruckig_input) ==
  LET RECURSIVE vel_magnitude(_)
      vel_magnitude(joint) ==
        IF joint = 0 THEN 0
        ELSE ruckig_input.target_velocity.value[joint] * ruckig_input.target_velocity.value[joint]
               + vel_magnitude(joint - 1)
  IN  [squared |-> vel_magnitude(num_dof), places |-> ruckig_input.target_velocity.places]

\* double velocity_magnitude = DBL_MAX
DBL_MAX == <<>>

\* velocity_magnitude after the "decrease target velocity" block
velocityMagnitudeOfEveryTarget(backward_motion_detected, ruckig_input, velocity_magnitude) ==
  << getTargetVelocityMagnitude(ruckig_input) >>

velocityMagnitude(backward_motion_detected, ruckig_input, velocity_magnitude) ==
  IF backward_motion_detected THEN << getTargetVelocityMagnitude(ruckig_input) >>
  ELSE velocity_magnitude

\* velocity_magnitude < MINIMUM_VELOCITY_SEARCH_MAGNITUDE
belowMinimumVelocity(velocity_magnitude) ==
  /\ velocity_magnitude # DBL_MAX
  /\ velocity_magnitude[1].squared <
       MINIMUM_VELOCITY_SEARCH_MAGNITUDE * MINIMUM_VELOCITY_SEARCH_MAGNITUDE
         * Pow(100, velocity_magnitude[1].places)

\* "Add this waypoint to the output trajectory"
addWaypointOfTargetDuration(output_trajectory, ruckig_output, duration_from_previous) ==
  addSuffixWayPoint(output_trajectory,
                    [position |-> ruckig_output.new_position,
                     velocity |-> ruckig_output.new_velocity,
                     acceleration |-> ruckig_output.new_acceleration],
                    duration_from_previous)

addWaypoint(output_trajectory, ruckig_output, duration_from_previous) ==
  addSuffixWayPoint(output_trajectory,
                    [position |-> ruckig_output.new_position,
                     velocity |-> ruckig_output.new_velocity,
                     acceleration |-> ruckig_output.new_acceleration],
                    DEFAULT_RUCKIG_TIMESTEP)

getNextRuckigInput(ruckig_output, target_waypoint, ruckig_input) ==
  [current_position |-> ruckig_output.new_position,
   current_velocity |-> ruckig_output.new_velocity,
   current_acceleration |-> ruckig_output.new_acceleration,
   target_position |-> target_waypoint.position,
   target_velocity |-> Decimal(target_waypoint.velocity),
   target_acceleration |-> Decimal(target_waypoint.acceleration)]

\* no call of applySmoothing has been made
NoCall ==
  [pc |-> "idle", input |-> <<>>, trajectory |-> <<>>, output_trajectory |-> <<>>,
   num_waypoints |-> 0, waypoint_idx |-> 0,
   ruckig_input |-> <<>>, ruckig_output |-> <<>>,
   velocity_magnitude |-> DBL_MAX, backward_motion_detected |-> TRUE,
   ruckig_result |-> "Working", returned |-> <<>>,
   \* the calls of the generator, those whose output became a waypoint, and
   \* the last pass of the while loop: its target, whether it detected
   \* backward motion, and the generator's input past the decrease
   updates |-> 0, added |-> 0, pass |-> <<>>]

\* return false
returnFalseWithOutput(s) ==
  [s EXCEPT !.pc = "returned", !.returned = <<FALSE>>, !.trajectory = s.output_trajectory]

returnFalse(s) ==
  [s EXCEPT !.pc = "returned", !.returned = <<FALSE>>]

\* the variables of the servo node
servoVars == <<cmdVars, scratchVars, loopVars, jointVars, parameters, robot_position,
               collision_velocity_scale_, drift_dimensions_, drift_request, threadVars,
               cycle>>

\* applySmoothing from its entry to the first test of the while loop
applySmoothingBegin(argument) ==
  /\ smoothing.pc = "idle"
  /\ smoothing' =
       LET called == [NoCall EXCEPT !.input = argument, !.trajectory = argument]
       IN  IF Len(argument) < 2 THEN returnFalse(called)
           ELSE LET trajectory == removeRepeatedWaypoints(argument, 0, Len(argument))
                    collapsed == [called EXCEPT
                                    !.trajectory = trajectory,
                                    !.output_trajectory =
                                       << [state |-> trajectory[1].state,
                                           duration_from_previous |-> 0] >>,
                                    !.num_waypoints = Len(trajectory)]
                    ruckig == initializeRuckigState(trajectory[1].state)
                IN  IF Len(trajectory) < 2 THEN returnFalse(collapsed)
                    ELSE IF AverageSegmentDurationTooShort(trajectory)
                      THEN returnFalse(collapsed)
                    ELSE [collapsed EXCEPT !.pc = "while",
                                           !.ruckig_input = ruckig.input,
                                           !.ruckig_output = ruckig.output]
  /\ UNCHANGED servoVars

\* The body of the while loop, for the result and the new velocity that the
\* generator gives; updates is the number of passes made, this one included
whilePass(result, new_velocity, updates) ==
  /\ \E ruckig_output \in {update(smoothing.ruckig_input, smoothing.ruckig_output,
                                  result, new_velocity)} :
       LET target_waypoint == smoothing.trajectory[smoothing.waypoint_idx + 2]
           backward_motion_detected ==
             checkForLaggingMotion(smoothing.ruckig_input, ruckig_output)
           ruckig_input ==
             IF backward_motion_detected
               THEN decreaseTargetVelocity(smoothing.ruckig_input, ruckig_output)
               ELSE smoothing.ruckig_input
           velocity_magnitude ==
             velocityMagnitude(backward_motion_detected, ruckig_input,
                               smoothing.velocity_magnitude)
           add == /\ ~backward_motion_detected
                  /\ result \in {"Working", "Finished"}
           passed == [smoothing EXCEPT
                        !.ruckig_output = ruckig_output,
                        !.ruckig_input = ruckig_input,
                        !.ruckig_result = result,
                        !.backward_motion_detected = backward_motion_detected,
                        !.velocity_magnitude = velocity_magnitude,
                        !.updates = updates,
                        !.pass = << [waypoint_idx |-> smoothing.waypoint_idx,
                                     backward_motion_detected |-> backward_motion_detected,
                                     ruckig_input |-> ruckig_input] >>]
       IN  smoothing' =
             IF belowMinimumVelocity(velocity_magnitude) THEN returnFalse(passed)
             ELSE [passed EXCEPT
                     !.output_trajectory =
                        IF add THEN addWaypoint(@, ruckig_output,
                                                target_waypoint.duration_from_previous)
                        ELSE @,
                     !.added = IF add THEN @ + 1 ELSE @,
                     !.ruckig_input =
                        getNextRuckigInput(ruckig_output, target_waypoint.state, ruckig_input)]
  /\ UNCHANGED servoVars

\* one pass of the body of the while loop
whileBody(result, new_velocity) ==
  /\ smoothing.pc = "while"
  /\ smoothing.backward_motion_detected \/ smoothing.ruckig_result # "Finished"
  /\ smoothing.updates < MaxUpdates
  /\ whilePass(result, new_velocity, smoothing.updates + 1)

\* One pass of the body of the while loop, with as many passes as the
\* generator makes it take: the passes are counted up to MaxUpdates, and only
\* the passes that lengthen the output trajectory are held to that number
whileLoop(result, new_velocity) ==
  /\ smoothing.pc = "while"
  /\ smoothing.backward_motion_detected \/ smoothing.ruckig_result # "Finished"
  /\ whilePass(result, new_velocity,
               IF smoothing.updates < MaxUpdates THEN smoothing.updates + 1
               ELSE smoothing.updates)
  /\ smoothing.updates < MaxUpdates \/ smoothing'.added = smoothing.added

\* The while loop is left: the for loop goes to the next waypoint, or it is
\* left too, trajectory = output_trajectory and return true
nextWaypoint ==
  /\ smoothing.pc = "while"
  /\ ~(smoothing.backward_motion_detected \/ smoothing.ruckig_result # "Finished")
  /\ smoothing' =
       IF smoothing.waypoint_idx + 1 < smoothing.num_waypoints - 1
         THEN [smoothing EXCEPT !.waypoint_idx = @ + 1,
                                !.velocity_magnitude = DBL_MAX,
                                !.backward_motion_detected = TRUE,
                                !.ruckig_result = "Working"]
         ELSE [smoothing EXCEPT !.pc = "returned",
                                !.trajectory = smoothing.output_trajectory,
                                !.returned = <<TRUE>>]
  /\ UNCHANGED servoVars

(***************************************************************************)
(* Construction: the state after ServoCalcs::ServoCalcs                     *)
(***************************************************************************)
InitialPositions == {<<2, 2>>}

\* latest_*_command_stamp_ start at rclcpp::Time(0): both commands are stale
InitFrom(parameter_sets, positions) ==
  /\ parameters \in parameter_sets
  /\ robot_position \in positions
  /\ latest_twist_stamped_ = <<>>
  /\ latest_twist_cmd_is_nonzero_ = FALSE
  /\ twist_command_age = incoming_command_timeout
  /\ latest_joint_cmd_ = <<>>
  /\ latest_joint_cmd_is_nonzero_ = FALSE
  /\ joint_command_age = incoming_command_timeout
  /\ arrived = [twist |-> <<>>, joint |-> <<>>, stamped |-> FALSE, unobserved |-> FALSE]
  /\ collision_velocity_scale_ = ScaleDen
  /\ drift_dimensions_ = [d \in 1..6 |-> FALSE]
  /\ drift_request = <<>>
  /\ smoothing = NoCall
  /\ stop_requested_ = TRUE
  /\ paused_ = FALSE
  /\ new_input_cmd_ = FALSE
  /\ main_loop_mutex_ = "free"
  /\ thread_ = "none"
  /\ caller = [pc |-> "idle", op |-> "none"]
  /\ status_ = "NO_WARNING"
  /\ wait_for_servo_commands_ = TRUE
  /\ done_stopping_ = FALSE
  /\ zero_velocity_count_ = 0
  /\ ok_to_publish_ = FALSE
  /\ updated_filters_ = FALSE
  /\ twist_command_is_stale_ = FALSE
  /\ joint_command_is_stale_ = FALSE
  /\ original_joint_state_ = [position |-> Zeros(num_joints_), velocity |-> Zeros(num_joints_)]
  /\ internal_joint_state_ = [position |-> Zeros(num_joints_), velocity |-> Zeros(num_joints_)]
  /\ delta_theta_ = Zeros(num_joints_)
  /\ joint_trajectory = NoTrajectory
  /\ last_sent_command_ = NoTrajectory
  /\ smoother_ = Zeros(num_joints_)
  /\ cycle = NewCycle

InitWith(parameter_sets) == InitFrom(parameter_sets, InitialPositions)

Init == InitWith({DefaultParameters})

(***************************************************************************)
(* Callback threads                                                         *)
(***************************************************************************)
\* The worker is between two iterations (about to lock main_loop_mutex_ and,
\* in low latency mode, to wait on the condition variable), or not running.
\* An iteration reads the clock, the robot's state, the collision scale and
\* the latest commands once each (lines 345-362 and 618), and the loop's
\* condition reads none of them, so a change of one of them at any other
\* point of the loop has the effect of the same change at this point: the
\* model lets them change here only.
BetweenIterations ==
  \/ thread_ \in {"none", "done", "terminated"}
  \/ thread_ = "lock"

\* the history after the arrival of msg
Arrival(type, msg) ==
  [arrived EXCEPT
     ![type] = << [msg |-> msg,
                   age |-> IF msg.stamp # 0 THEN 0 ELSE incoming_command_timeout] >>,
     !.stamped = @ \/ msg.stamp # 0,
     !.unobserved = @ \/ (thread_ = "lock" /\ parameters.low_latency_mode)]

\* seeded fault: a twist that has not been replaced stays the latest one
twistStampedCBKeepsFirst(msg) ==
  /\ BetweenIterations
  /\ main_loop_mutex_ = "free"
  /\ latest_twist_stamped_' = IF latest_twist_stamped_ = <<>> THEN <<msg>>
                               ELSE latest_twist_stamped_
  /\ latest_twist_cmd_is_nonzero_' = isNonZeroTwist(latest_twist_stamped_'[1])
  /\ twist_command_age' = IF msg.stamp # 0 THEN 0 ELSE twist_command_age
  /\ arrived' = Arrival("twist", msg)
  /\ new_input_cmd_' = TRUE
  /\ UNCHANGED <<latest_joint_cmd_, latest_joint_cmd_is_nonzero_, joint_command_age,
                 scratchVars, loopVars, jointVars, envVars, cycle,
                 stop_requested_, paused_, main_loop_mutex_, thread_, caller>>

twistStampedCB(msg) ==
  /\ BetweenIterations
  /\ main_loop_mutex_ = "free"
  /\ latest_twist_stamped_' = <<msg>>
  /\ latest_twist_cmd_is_nonzero_' = isNonZeroTwist(msg)
  /\ twist_command_age' = IF msg.stamp # 0 THEN 0 ELSE twist_command_age
  /\ arrived' = Arrival("twist", msg)
  /\ new_input_cmd_' = TRUE
  /\ UNCHANGED <<latest_joint_cmd_, latest_joint_cmd_is_nonzero_, joint_command_age,
                 scratchVars, loopVars, jointVars, envVars, cycle,
                 stop_requested_, paused_, main_loop_mutex_, thread_, caller>>

\* seeded fault: the stamp of every joint jog is taken, 0 or not
jointCmdCBTakesEveryStamp(msg) ==
  /\ BetweenIterations
  /\ main_loop_mutex_ = "free"
  /\ latest_joint_cmd_' = <<msg>>
  /\ latest_joint_cmd_is_nonzero_' = isNonZeroJog(msg)
  /\ joint_command_age' = IF msg.stamp # 0 THEN 0 ELSE incoming_command_timeout
  /\ arrived' = Arrival("joint", msg)
  /\ new_input_cmd_' = TRUE
  /\ UNCHANGED <<latest_twist_stamped_, latest_twist_cmd_is_nonzero_, twist_command_age,
                 scratchVars, loopVars, jointVars, envVars, cycle,
                 stop_requested_, paused_, main_loop_mutex_, thread_, caller>>

jointCmdCB(msg) ==
  /\ BetweenIterations
  /\ main_loop_mutex_ = "free"
  /\ latest_joint_cmd_' = <<msg>>
  /\ latest_joint_cmd_is_nonzero_' = isNonZeroJog(msg)
  /\ joint_command_age' = IF msg.stamp # 0 THEN 0 ELSE joint_command_age
  /\ arrived' = Arrival("joint", msg)
  /\ new_input_cmd_' = TRUE
  /\ UNCHANGED <<latest_twist_stamped_, latest_twist_cmd_is_nonzero_, twist_command_age,
                 scratchVars, loopVars, jointVars, envVars, cycle,
                 stop_requested_, paused_, main_loop_mutex_, thread_, caller>>

collisionVelocityScaleCB(data) ==
  /\ BetweenIterations
  /\ collision_velocity_scale_ # data
  /\ collision_velocity_scale_' = data
  /\ UNCHANGED <<cmdVars, scratchVars, loopVars, jointVars, parameters, smoothing,
                 robot_position,
                 drift_dimensions_, drift_request, threadVars, cycle>>

resetServoStatus ==
  /\ BetweenIterations
  /\ status_ # "NO_WARNING"
  /\ status_' = "NO_WARNING"
  /\ UNCHANGED <<cmdVars, scratchVars, wait_for_servo_commands_, done_stopping_,
                 zero_velocity_count_, ok_to_publish_, updated_filters_, jointVars, envVars,
                 threadVars, cycle>>

\* ServoCalcs::changeDriftDimensions: the service sets the six flags
\* a call that runs from its first to its last statement between two iterations
changeDriftDimensions(req) ==
  /\ BetweenIterations
  /\ drift_request = <<>>
  /\ drift_dimensions_ # req
  /\ drift_dimensions_' = req
  /\ UNCHANGED <<cmdVars, scratchVars, loopVars, jointVars, parameters, smoothing,
                 robot_position,
                 collision_velocity_scale_, drift_request, threadVars, cycle>>

\* The same service, statement by statement.  It takes no mutex: the worker
\* may run an iteration between two of its six assignments.  An iteration
\* reads the flags in removeDriftDimensions only, so an assignment made during
\* an iteration acts as one made just before or just after it.
\* drift_dimensions_[0] = req->drift_x_translation
changeDriftDimensionsBegin(req) ==
  /\ BetweenIterations
  /\ drift_request = <<>>
  /\ drift_dimensions_ # req
  /\ drift_dimensions_' = [drift_dimensions_ EXCEPT ![1] = req[1]]
  /\ drift_request' = << [req |-> req, next |-> 2] >>
  /\ UNCHANGED <<cmdVars, scratchVars, loopVars, jointVars, parameters, smoothing,
                 robot_position,
                 collision_velocity_scale_, threadVars, cycle>>

\* drift_dimensions_[1] = ... to drift_dimensions_[5] = ...; res->success = true
changeDriftDimensionsWrite ==
  /\ BetweenIterations
  /\ drift_request # <<>>
  /\ drift_dimensions_' =
       [drift_dimensions_ EXCEPT
          ![drift_request[1].next] = drift_request[1].req[drift_request[1].next]]
  /\ drift_request' = IF drift_request[1].next = 6 THEN <<>>
                       ELSE << [drift_request[1] EXCEPT !.next = @ + 1] >>
  /\ UNCHANGED <<cmdVars, scratchVars, loopVars, jointVars, parameters, smoothing,
                 robot_position,
                 collision_velocity_scale_, threadVars, cycle>>

\* paused_ is read twice in an iteration (lines 383 and 473): a call between
\* the two reads is a call just before the second
setPaused(paused) ==
  /\ BetweenIterations \/ thread_ = "pub"
  /\ paused_ # paused
  /\ paused_' = paused
  /\ UNCHANGED <<cmdVars, scratchVars, loopVars, jointVars, envVars, cycle,
                 stop_requested_, new_input_cmd_, main_loop_mutex_, thread_, caller>>

(***************************************************************************)
(* The environment: the clock and the robot                                 *)
(***************************************************************************)
\* one tick of the clock passes without a command
Tick ==
  /\ BetweenIterations
  /\ twist_command_age < incoming_command_timeout
       \/ joint_command_age < incoming_command_timeout
  /\ twist_command_age' = IF twist_command_age < incoming_command_timeout
                            THEN twist_command_age + 1 ELSE twist_command_age
  /\ joint_command_age' = IF joint_command_age < incoming_command_timeout
                            THEN joint_command_age + 1 ELSE joint_command_age
  /\ arrived' = [type \in DOMAIN arrived |->
                   IF type \in {"stamped", "unobserved"} THEN arrived[type]
                   ELSE [n \in 1..Len(arrived[type]) |->
                           [arrived[type][n] EXCEPT
                              !.age = IF @ < incoming_command_timeout THEN @ + 1 ELSE @]]]
  /\ UNCHANGED <<latest_twist_stamped_, latest_twist_cmd_is_nonzero_,
                 latest_joint_cmd_, latest_joint_cmd_is_nonzero_,
                 scratchVars, loopVars, jointVars, envVars, threadVars, cycle>>

\* the joint controller brings the robot to the last commanded positions
RobotMoves ==
  /\ BetweenIterations
  /\ last_sent_command_ # NoTrajectory
  /\ Len(last_sent_command_[1].positions) = num_joints_
  /\ robot_position # last_sent_command_[1].positions
  /\ robot_position' = last_sent_command_[1].positions
  /\ UNCHANGED <<cmdVars, scratchVars, loopVars, jointVars, parameters, smoothing,
                 collision_velocity_scale_, drift_dimensions_, drift_request, threadVars, cycle>>

(***************************************************************************)
(* The smoothing plugin: a first-order low-pass filter                      *)
(***************************************************************************)
\* smoother_->doSmoothing(positions): each position moves half the way from
\* the filter's state to the new measurement; the result is the new state
doSmoothing(filter, positions) ==
  [i \in Joints |-> positions[i] - TruncDiv(positions[i] - filter[i], 2)]

\* seeded fault: a reset that leaves the filter's state as it is
resetLowPassFiltersKeepsState(joint_state) == smoother_

\* ServoCalcs::resetLowPassFilters: smoother_->reset(joint_state.position);
\* the result is the filter's new state
resetLowPassFilters(joint_state) == joint_state.position

(***************************************************************************)
(* Kinematic-limit primitives                                               *)
(***************************************************************************)
\* the largest |velocity| of a delta vector, per publish period
MaxAbs(v) == CHOOSE m \in {Abs(v[i]) : i \in 1..Len(v)} :
               \A i \in 1..Len(v) : Abs(v[i]) <= m

\* enforceVelocityLimits: scale the whole vector by the tightest ratio <= 1
enforceVelocityLimits(delta_theta) ==
  LET fastest == MaxAbs(delta_theta) IN
  IF fastest <= max_velocity * publish_period
    THEN delta_theta
    ELSE [i \in Joints |->
            TruncDiv(delta_theta[i] * max_velocity * publish_period, fastest)]

\* JointModel::satisfiesPositionBounds(&angle, margin)
satisfiesPositionBounds(angle, margin) ==
  /\ angle >= min_position - margin
  /\ angle <= max_position + margin

\* seeded fault: a joint past a margin is halted whatever its velocity
enforcePositionLimitsAnyVelocity(joint_state) ==
  {j \in Joints : ~satisfiesPositionBounds(joint_state.position[j], -joint_limit_margin)}

\* ServoCalcs::enforcePositionLimits: the joints to halt
enforcePositionLimits(joint_state) ==
  {j \in Joints :
     /\ ~satisfiesPositionBounds(joint_state.position[j], -joint_limit_margin)
     /\ \/ /\ joint_state.velocity[j] < 0
           /\ joint_state.position[j] < min_position + joint_limit_margin
        \/ /\ joint_state.velocity[j] > 0
           /\ joint_state.position[j] > max_position - joint_limit_margin}

\* seeded fault: a halt that zeroes the velocities but keeps the new positions
suddenHaltKeepsPosition(joint_state, joints_to_halt) ==
  [position |-> joint_state.position,
   velocity |-> [j \in Joints |-> IF j \in joints_to_halt
                                    THEN 0 ELSE joint_state.velocity[j]]]

\* ServoCalcs::suddenHalt
suddenHalt(joint_state, joints_to_halt) ==
  [position |-> [j \in Joints |-> IF j \in joints_to_halt
                                    THEN original_joint_state_.position[j]
                                    ELSE joint_state.position[j]],
   velocity |-> [j \in Joints |-> IF j \in joints_to_halt
                                    THEN 0 ELSE joint_state.velocity[j]]]

(***************************************************************************)
(* Command validation and scaling                                           *)
(***************************************************************************)
\* the bit pattern standing for a NaN component
NaN == 99
isnan(x) == x = NaN

\* ServoCalcs::checkValidCommand(JointJog)
checkValidCommandJog(cmd) ==
  \A i \in 1..Len(cmd.velocities) : ~isnan(cmd.velocities[i])

\* ServoCalcs::checkValidCommand(TwistStamped)
checkValidCommandTwist(cmd) ==
  /\ \A i \in 1..6 : ~isnan(cmd.twist[i])
  /\ parameters.command_in_type = "unitless" => \A i \in 1..6 : ~(Abs(cmd.twist[i]) > 1)

\* ServoCalcs::scaleCartesianCommand (linear_scale = rotational_scale = 1)
scaleCartesianCommand(cmd) ==
  IF parameters.command_in_type \in {"unitless", "speed_units"}
    THEN [i \in 1..6 |-> cmd.twist[i] * publish_period]
    ELSE [i \in 1..6 |-> 0]

\* parameters_->joint_scale
joint_scale == 1

\* a scaleJointCommand that makes room for the joints it does not know
RECURSIVE scaleJointCommandGrowing(_, _, _)
scaleJointCommandGrowing(command, m, result) ==
  IF m > Len(command.joint_names) THEN result
  ELSE LET scaled == IF parameters.command_in_type = "unitless"
                       THEN command.velocities[m] * joint_scale * publish_period
                     ELSE IF parameters.command_in_type = "speed_units"
                       THEN command.velocities[m] * publish_period
                     ELSE 0
       IN  scaleJointCommandGrowing(
             command, m + 1,
             IF command.joint_names[m] \notin DOMAIN joint_state_name_map_
               THEN Append(result, scaled)
               ELSE [result EXCEPT ![joint_state_name_map_[command.joint_names[m]]] = scaled])

\* The loop of ServoCalcs::scaleJointCommand from name m on: a name that is
\* not in joint_state_name_map_ is passed over (the catch and continue)
RECURSIVE scaleJointCommandFrom(_, _, _)
scaleJointCommandFrom(command, m, result) ==
  IF m > Len(command.joint_names) THEN result
  ELSE scaleJointCommandFrom(
         command, m + 1,
         IF command.joint_names[m] \notin DOMAIN joint_state_name_map_ THEN result
         ELSE IF parameters.command_in_type = "unitless"
           THEN [result EXCEPT ![joint_state_name_map_[command.joint_names[m]]] =
                   command.velocities[m] * joint_scale * publish_period]
         ELSE IF parameters.command_in_type = "speed_units"
           THEN [result EXCEPT ![joint_state_name_map_[command.joint_names[m]]] =
                   command.velocities[m] * publish_period]
         ELSE result)

\* seeded fault: an unknown name adds an entry to the result
scaleJointCommandGrowsOnUnknown(cmd) == scaleJointCommandGrowing(cmd, 1, Zeros(num_joints_))

\* ServoCalcs::scaleJointCommand: result(num_joints_), setZero, the loop
scaleJointCommand(cmd) == scaleJointCommandFrom(cmd, 1, Zeros(num_joints_))

(***************************************************************************)
(* The Cartesian path: a gantry whose joint i drives Cartesian axis i       *)
(***************************************************************************)
\* control_dimensions_ as constructed: every dimension is controlled
control_dimensions_ == [i \in 1..6 |-> TRUE]

\* ServoCalcs::enforceControlDimensions
enforceControlDimensions(cmd) ==
  [cmd EXCEPT !.twist = [i \in 1..6 |-> IF control_dimensions_[i] THEN cmd.twist[i] ELSE 0]]

\* Each row of the Jacobian and each entry of delta_x is kept together with
\* the Cartesian dimension it was computed for (1..6: x, y, z translation,
\* x, y, z rotation)
Tagged(v) == [d \in 1..Len(v) |-> [dimension |-> d, value |-> v[d]]]

\* current_state_->getJacobian(joint_model_group_) for the gantry
getJacobian == Tagged([d \in 1..6 |-> [j \in Joints |-> IF d = j THEN 1 ELSE 0]])

\* seeded fault: the matrix and the vector are resized without the shift
removeDimensionNoShift(jacobian, delta_x, row_to_remove) ==
  [jacobian |-> SubSeq(jacobian, 1, Len(jacobian) - 1),
   delta_x |-> SubSeq(delta_x, 1, Len(delta_x) - 1)]

\* ServoCalcs::removeDimension; rows are counted from 1.  The rows below the
\* removed one move up by one (the block assignment copies upward, each
\* coefficient read before the row that holds it is written), then the
\* matrix and the vector lose their last row
removeDimension(jacobian, delta_x, row_to_remove) ==
  LET num_rows == Len(jacobian) - 1
      shift(s) == [i \in 1..Len(s) |->
                     IF i >= row_to_remove /\ i <= num_rows THEN s[i + 1] ELSE s[i]]
  IN  [jacobian |-> SubSeq(shift(jacobian), 1, num_rows),
       delta_x |-> SubSeq(shift(delta_x), 1, Len(delta_x) - 1)]

\* the loop of removeDriftDimensions from dimension downward
RECURSIVE removeDriftDimensionsFrom(_, _, _)
removeDriftDimensionsFrom(matrix, delta_x, dimension) ==
  IF dimension < 1 THEN [jacobian |-> matrix, delta_x |-> delta_x]
  ELSE IF drift_dimensions_[dimension] /\ Len(matrix) > 1
    THEN LET removed == removeDimension(matrix, delta_x, dimension)
         IN  removeDriftDimensionsFrom(removed.jacobian, removed.delta_x, dimension - 1)
  ELSE removeDriftDimensionsFrom(matrix, delta_x, dimension - 1)

\* ServoCalcs::removeDriftDimensions
removeDriftDimensions(matrix, delta_x) ==
  removeDriftDimensionsFrom(matrix, delta_x, Len(matrix))

\* pseudo_inverse * delta_x.  The columns of the gantry's Jacobian are unit
\* vectors, and so are those of every reduced Jacobian of full rank: its
\* pseudo inverse is its transpose
RECURSIVE TransposeTimes(_, _, _)
TransposeTimes(jacobian, delta_x, j) ==
  IF jacobian = <<>> THEN 0
  ELSE jacobian[1].value[j] * delta_x[1].value
         + TransposeTimes(Tail(jacobian), Tail(delta_x), j)

PseudoInverseTimes(jacobian, delta_x) ==
  [j \in Joints |-> TransposeTimes(jacobian, delta_x, j)]

\* parameters_->lower_singularity_threshold / hard_stop_singularity_threshold
lower_singularity_threshold == 2
hard_stop_singularity_threshold == 4
\* the condition numbers the Jacobian's SVD may report
ConditionNumbers == {1, 3, 4, 5}

\* x * scale for a scale counted in 1/ScaleDen
Scaled(x, scale) == TruncDiv(x * scale, ScaleDen)

\* ServoCalcs::velocityScalingFactorForSingularity; toward is dot > 0
velocityScalingFactorForSingularity(ini_condition, toward, status) ==
  IF toward /\ ini_condition > lower_singularity_threshold
            /\ ini_condition < hard_stop_singularity_threshold
    THEN [velocity_scale |->
            ScaleDen - TruncDiv((ini_condition - lower_singularity_threshold) * ScaleDen,
                                hard_stop_singularity_threshold - lower_singularity_threshold),
          status |-> "DECELERATE_FOR_SINGULARITY"]
  ELSE IF toward /\ ini_condition > hard_stop_singularity_threshold
    THEN [velocity_scale |-> 0, status |-> "HALT_FOR_SINGULARITY"]
  ELSE [velocity_scale |-> ScaleDen, status |-> status]

\* The look-ahead of velocityScalingFactorForSingularity: the last column of
\* U, with its sign turned if (ini_condition >= new_condition)
flipOnlyWhenConditionDrops(vector, ini_condition, new_condition) ==
  IF ini_condition > new_condition THEN [d \in DOMAIN vector |-> -vector[d]] ELSE vector

vectorTowardSingularity(vector, ini_condition, new_condition) ==
  IF ini_condition >= new_condition THEN [d \in DOMAIN vector |-> -vector[d]] ELSE vector

\* vector_toward_singularity.dot(commanded_velocity)
RECURSIVE dot(_, _)
dot(a, b) == IF a = <<>> THEN 0 ELSE a[1] * b[1] + dot(Tail(a), Tail(b))

\* velocityScalingFactorForSingularity on a commanded velocity, the singular
\* vector and the two condition numbers that the decompositions report
singularityLookAhead(commanded_velocity, svd_vector, ini_condition, new_condition) ==
  /\ thread_ = "none"
  /\ cycle.singularity = <<>>
  /\ \E vector \in {vectorTowardSingularity(svd_vector, ini_condition, new_condition)} :
       LET result == velocityScalingFactorForSingularity(
                       ini_condition, dot(vector, commanded_velocity) > 0, status_)
       IN  /\ status_' = result.status
           /\ cycle' = [cycle EXCEPT !.singularity =
                          << [commanded_velocity |-> commanded_velocity,
                              svd_vector |-> svd_vector,
                              ini_condition |-> ini_condition,
                              new_condition |-> new_condition,
                              vector_toward_singularity |-> vector,
                              toward |-> dot(vector, commanded_velocity) > 0,
                              result |-> result] >>]
  /\ UNCHANGED <<cmdVars, scratchVars, jointVars, envVars, threadVars,
                 wait_for_servo_commands_, done_stopping_, zero_velocity_count_,
                 ok_to_publish_, updated_filters_>>

(***************************************************************************)
(* internalServoUpdate and what it calls                                    *)
(***************************************************************************)
\* ServoCalcs::applyJointUpdate: increment, smooth, recompute velocities
applyJointUpdate(delta_theta, joint_state, filter) ==
  LET ok == /\ Len(joint_state.position) = Len(delta_theta)
            /\ Len(joint_state.velocity) = Len(joint_state.position)
      smoothed == doSmoothing(filter, [i \in Joints |-> joint_state.position[i] + delta_theta[i]])
  IN  IF ~ok
        THEN [ok |-> FALSE, joint_state |-> joint_state, smoother |-> filter]
        ELSE [ok |-> TRUE,
              joint_state |->
                [position |-> smoothed,
                 velocity |-> [i \in Joints |->
                    TruncDiv(smoothed[i] - original_joint_state_.position[i], publish_period)]],
              smoother |-> smoothed]

\* ServoCalcs::composeJointTrajMessage on a fresh trajectory
composeJointTrajMessage(joint_state) ==
  << [positions |-> IF parameters.publish_joint_positions THEN joint_state.position ELSE <<>>,
      velocities |-> IF parameters.publish_joint_velocities THEN joint_state.velocity ELSE <<>>,
      accelerations |-> IF parameters.publish_joint_accelerations
                          THEN Zeros(num_joints_) ELSE <<>>] >>

\* the outcome of a servo calculation that returned false before changing anything
Rejected(status) ==
  [ok |-> FALSE, status |-> status, internal_joint_state |-> internal_joint_state_,
   smoother |-> smoother_, delta_theta |-> delta_theta_, joint_trajectory |-> NoTrajectory,
   updated_filters |-> updated_filters_, collision_scale |-> ScaleDen,
   position_limits |-> <<>>]

\* seeded fault: each mode reads the other mode's parameter
haltOnlyCandidatesSwapped(servo_type) ==
  \/ servo_type = "JOINT_SPACE" /\ ~parameters.halt_all_joints_in_cartesian_mode
  \/ servo_type = "CARTESIAN_SPACE" /\ ~parameters.halt_all_joints_in_joint_mode

\* the condition under which internalServoUpdate halts the joints that
\* enforcePositionLimits returned, and not every joint of the group
haltOnlyCandidates(servo_type) ==
  \/ servo_type = "JOINT_SPACE" /\ ~parameters.halt_all_joints_in_joint_mode
  \/ servo_type = "CARTESIAN_SPACE" /\ ~parameters.halt_all_joints_in_cartesian_mode

\* a collision status that gives way to a status already set in the cycle
collisionStatusUnlessSet(collision_scale, status) ==
  IF status # "NO_WARNING" THEN status
  ELSE IF collision_scale > 0 /\ collision_scale < ScaleDen
    THEN "DECELERATE_FOR_COLLISION"
  ELSE IF collision_scale = 0 THEN "HALT_FOR_COLLISION"
  ELSE status

\* "Apply collision scaling": status_ after the two tests of collision_scale
collisionStatus(collision_scale, status) ==
  IF collision_scale > 0 /\ collision_scale < ScaleDen
    THEN "DECELERATE_FOR_COLLISION"
  ELSE IF collision_scale = 0 THEN "HALT_FOR_COLLISION"
  ELSE status

\* ServoCalcs::internalServoUpdate
internalServoUpdate(delta_theta, servo_type, status) ==
  LET collision_scale == collision_velocity_scale_
      status1 == collisionStatus(collision_scale, status)
      delta1 == [i \in Joints |-> Scaled(delta_theta[i], collision_scale)]
      upd == applyJointUpdate(delta1, original_joint_state_, smoother_)
      delta2 == enforceVelocityLimits(delta1)
      joints_to_halt == enforcePositionLimits(upd.joint_state)
      only_candidates == haltOnlyCandidates(servo_type)
      halted == IF joints_to_halt = {} THEN upd.joint_state
                ELSE IF only_candidates THEN suddenHalt(upd.joint_state, joints_to_halt)
                ELSE suddenHalt(upd.joint_state, Joints)
  IN  IF ~upd.ok
        THEN [ok |-> FALSE, status |-> status1, internal_joint_state |-> original_joint_state_,
              smoother |-> smoother_, delta_theta |-> delta1, joint_trajectory |-> NoTrajectory,
              updated_filters |-> updated_filters_, collision_scale |-> collision_scale,
              position_limits |-> <<>>]
        ELSE [ok |-> TRUE,
              status |-> IF joints_to_halt = {} THEN status1 ELSE "JOINT_BOUND",
              internal_joint_state |-> halted,
              smoother |-> upd.smoother,
              delta_theta |-> delta2,
              joint_trajectory |-> composeJointTrajMessage(halted),
              updated_filters |-> TRUE,
              collision_scale |-> collision_scale,
              position_limits |-> << [joint_state |-> upd.joint_state,
                                      joints_to_halt |-> joints_to_halt] >>]

\* ServoCalcs::cartesianServoCalcs (commands arrive in the planning frame)
cartesianServoCalcs(cmd, ini_condition, toward) ==
  IF ~checkValidCommandTwist(cmd) THEN Rejected(status_)
  ELSE
    LET delta_x == Tagged(scaleCartesianCommand(enforceControlDimensions(cmd)))
        reduced == removeDriftDimensions(getJacobian, delta_x)
        sing == velocityScalingFactorForSingularity(ini_condition, toward, status_)
        delta_theta == [j \in Joints |->
                          Scaled(PseudoInverseTimes(reduced.jacobian, reduced.delta_x)[j],
                                 sing.velocity_scale)]
    IN  \* delta_theta_ is computed once, then handed to internalServoUpdate
        CHOOSE result \in {internalServoUpdate(d, "CARTESIAN_SPACE", sing.status) :
                             d \in {delta_theta}} : TRUE

\* ServoCalcs::jointServoCalcs
jointServoCalcs(cmd) ==
  IF ~checkValidCommandJog(cmd) THEN Rejected(status_)
  ELSE internalServoUpdate(scaleJointCommand(cmd), "JOINT_SPACE", status_)

\* the else branch of the dispatch: the last sent command with zero velocities
RepublishLast ==
  [ok |-> TRUE, status |-> status_, internal_joint_state |-> internal_joint_state_,
   smoother |-> smoother_, delta_theta |-> delta_theta_,
   joint_trajectory |->
     [p \in 1..Len(last_sent_command_) |->
        [last_sent_command_[p] EXCEPT !.velocities = Zeros(Len(@))]],
   updated_filters |-> updated_filters_, collision_scale |-> ScaleDen,
   position_limits |-> <<>>]

\* ServoCalcs::filteredHalt; threw: a vector::at() out of range
filteredHalt(filter) ==
  LET positions == doSmoothing(filter, original_joint_state_.position)
      computed == [i \in Joints |->
                     TruncDiv(positions[i] - original_joint_state_.position[i], publish_period)]
      stopped == \A i \in Joints : ~(computed[i] > STOPPED_VELOCITY_EPS)
      velocities == IF ~parameters.publish_joint_velocities THEN <<>>
                    ELSE IF stopped THEN Zeros(num_joints_) ELSE computed
      threw == parameters.publish_joint_accelerations /\ Len(velocities) < num_joints_
      accelerations ==
        IF parameters.publish_joint_accelerations /\ ~threw
          THEN [i \in Joints |->
                  TruncDiv(velocities[i] - original_joint_state_.velocity[i], publish_period)]
          ELSE <<>>
  IN  [joint_trajectory |-> << [positions |-> positions, velocities |-> velocities,
                                accelerations |-> accelerations] >>,
       done_stopping |-> IF parameters.publish_joint_velocities THEN stopped ELSE TRUE,
       smoother |-> positions,
       threw |-> threw]

(***************************************************************************)
(* The worker thread: mainCalcLoop and calculateSingleIteration             *)
(***************************************************************************)
\* seeded fault: the status is published and not reset
publishStatusKeepsStatus(log, status) ==
  [log |-> Append(log, [type |-> "status", data |-> status]),
   status |-> status]

\* the head of calculateSingleIteration: the status is published, then reset
publishStatus(log, status) ==
  [log |-> Append(log, [type |-> "status", data |-> status]),
   status |-> "NO_WARNING"]

\* seeded fault: the trajectory overtakes the cycle's status message
publishTrajectoryFirst(log, trajectory) ==
  << [type |-> "trajectory", data |-> trajectory] >> \o log

\* trajectory_outgoing_cmd_pub_->publish(joint_trajectory)
publishTrajectory(log, trajectory) ==
  Append(log, [type |-> "trajectory", data |-> trajectory])

\* seeded fault: no command is ever found stale
isStaleNever(age) == FALSE

\* a command is stale when its age has reached incoming_command_timeout
isStale(age) == age >= incoming_command_timeout

\* while (rclcpp::ok() && !stop_requested_)
LoopCondition ==
  /\ thread_ = "while"
  /\ thread_' = IF stop_requested_ THEN "done" ELSE "lock"
  /\ UNCHANGED <<cmdVars, scratchVars, loopVars, jointVars, envVars, cycle,
                 stop_requested_, paused_, new_input_cmd_, main_loop_mutex_, caller>>

\* ServoCalcs::updateJoints: the snapshot of the robot's current joint state
updateJoints == [position |-> robot_position, velocity |-> Zeros(num_joints_)]

\* The unique_lock, in low latency mode input_cv_.wait with its predicate,
\* and calculateSingleIteration up to the waiting / paused early exit
\* a node that waits until a twist with a stamp arrives
waitForStampedTwist == twist_stamped_cmd_.stamp = 0

\* "Check if there are any new commands with valid timestamp": the value
\* given to wait_for_servo_commands_ in the waiting or paused branch
waitForServoCommands ==
  twist_stamped_cmd_.stamp = 0 /\ joint_servo_cmd_.stamp = 0

CycleBegin ==
  /\ thread_ = "lock"
  /\ main_loop_mutex_ = "free"
  /\ parameters.low_latency_mode => (new_input_cmd_ \/ stop_requested_)
  /\ main_loop_mutex_' = "worker"
  /\ new_input_cmd_' = FALSE
  /\ status_' = publishStatus(<<>>, status_).status
  /\ original_joint_state_' = updateJoints
  /\ internal_joint_state_' = updateJoints
  /\ twist_command_is_stale_' = isStale(twist_command_age)
  /\ joint_command_is_stale_' = isStale(joint_command_age)
  /\ IF wait_for_servo_commands_ \/ paused_
       THEN /\ smoother_' = resetLowPassFilters(updateJoints)
            /\ updated_filters_' = TRUE
            /\ wait_for_servo_commands_' = waitForServoCommands
            /\ thread_' = "end"
            /\ cycle' = [NewCycle EXCEPT
                 !.log = publishStatus(<<>>, status_).log,
                 !.path = "waiting",
                 !.waiting_at_check = wait_for_servo_commands_,
                 !.paused_at_check = paused_]
       ELSE /\ updated_filters_' = FALSE
            /\ thread_' = "calc"
            /\ cycle' = [NewCycle EXCEPT !.log = publishStatus(<<>>, status_).log]
            /\ UNCHANGED <<smoother_, wait_for_servo_commands_>>
  /\ arrived' = [arrived EXCEPT !.unobserved = FALSE]
  /\ UNCHANGED <<latest_twist_stamped_, latest_twist_cmd_is_nonzero_, twist_command_age,
                 latest_joint_cmd_, latest_joint_cmd_is_nonzero_, joint_command_age,
                 envVars, done_stopping_, zero_velocity_count_, ok_to_publish_,
                 delta_theta_, joint_trajectory, last_sent_command_,
                 stop_requested_, paused_, caller>>

\* seeded fault: the joint jog is given priority over the twist
selectCommandSourceJointFirst ==
  IF have_nonzero_joint_command_ /\ ~joint_command_is_stale_ THEN "joint"
  ELSE IF have_nonzero_twist_stamped_ /\ ~twist_command_is_stale_ THEN "cartesian"
  ELSE "republish"

\* the dispatch of calculateSingleIteration: Cartesian servoing is prioritized
\* above joint servoing, and only a nonzero command that is not stale is run
selectCommandSource ==
  IF have_nonzero_twist_stamped_ /\ ~twist_command_is_stale_ THEN "cartesian"
  ELSE IF have_nonzero_joint_command_ /\ ~joint_command_is_stale_ THEN "joint"
  ELSE "republish"

\* a count of zero-velocity cycles that a cycle with a command does not reset
zeroVelocityCountKept(done_stopping) ==
  IF ~have_nonzero_command_ /\ done_stopping
    THEN IF zero_velocity_count_ < IntMax
           THEN zero_velocity_count_ + 1 ELSE zero_velocity_count_
    ELSE zero_velocity_count_

\* "Store last zero-velocity message flag": zero_velocity_count_ after the
\* decision on the publication, counted up to the largest int
zeroVelocityCount(done_stopping) ==
  IF ~have_nonzero_command_ /\ done_stopping
    THEN IF zero_velocity_count_ < IntMax
           THEN zero_velocity_count_ + 1 ELSE zero_velocity_count_
    ELSE 0

\* a node that publishes the halting point while its commands are stale
skipPublicationAfterHaltMessages(both_stale, done_stopping) ==
  /\ ~have_nonzero_command_ /\ done_stopping
  /\ parameters.num_outgoing_halt_msgs_to_publish # 0
  /\ zero_velocity_count_ > parameters.num_outgoing_halt_msgs_to_publish

\* "Skip the servoing publication ...": the two tests after which
\* ok_to_publish_ = false
skipPublication(both_stale, done_stopping) ==
  \/ /\ ~have_nonzero_command_ /\ done_stopping
     /\ parameters.num_outgoing_halt_msgs_to_publish # 0
     /\ zero_velocity_count_ > parameters.num_outgoing_halt_msgs_to_publish
  \/ both_stale

\* a skipped cycle that takes the robot for moving again
skipCycleClearsDoneStopping(path, collision_scale) ==
  /\ smoother_' = resetLowPassFilters(original_joint_state_)
  /\ updated_filters_' = TRUE
  /\ joint_trajectory' = NoTrajectory
  /\ thread_' = "end"
  /\ cycle' = [cycle EXCEPT !.path = path, !.skipped = TRUE,
                            !.collision_scale = collision_scale]
  /\ done_stopping_' = FALSE
  /\ UNCHANGED <<ok_to_publish_, zero_velocity_count_>>

\* The servo calculation rejected the command: resetLowPassFilters and return,
\* the cycle is skipped
skipCycle(path, collision_scale) ==
  /\ smoother_' = resetLowPassFilters(original_joint_state_)
  /\ updated_filters_' = TRUE
  /\ joint_trajectory' = NoTrajectory
  /\ thread_' = "end"
  /\ cycle' = [cycle EXCEPT !.path = path, !.skipped = TRUE,
                            !.collision_scale = collision_scale]
  /\ UNCHANGED <<done_stopping_, ok_to_publish_, zero_velocity_count_>>

\* calculateSingleIteration from the dispatch to the zero-velocity count
Calc ==
  /\ thread_ = "calc"
  /\ \E ini_condition \in ConditionNumbers, toward \in BOOLEAN :
     \E r \in {IF selectCommandSource = "cartesian"
                  THEN cartesianServoCalcs(twist_stamped_cmd_, ini_condition, toward)
                ELSE IF selectCommandSource = "joint" THEN jointServoCalcs(joint_servo_cmd_)
                ELSE RepublishLast} :
       LET cartesian == selectCommandSource = "cartesian"
           path == selectCommandSource
           both_stale == twist_command_is_stale_ /\ joint_command_is_stale_
           singularity ==
             IF cartesian /\ checkValidCommandTwist(twist_stamped_cmd_)
               THEN << [ini_condition |-> ini_condition, toward |-> toward,
                        result |-> velocityScalingFactorForSingularity(ini_condition, toward,
                                                                       status_)] >>
               ELSE <<>>
           drift ==
             IF cartesian /\ checkValidCommandTwist(twist_stamped_cmd_)
               THEN LET delta_x == Tagged(scaleCartesianCommand(
                                            enforceControlDimensions(twist_stamped_cmd_)))
                    IN  << [drift_dimensions |-> drift_dimensions_,
                            jacobian |-> getJacobian, delta_x |-> delta_x,
                            result |-> removeDriftDimensions(getJacobian, delta_x)] >>
               ELSE <<>>
           h == filteredHalt(r.smoother)
           done_stopping == IF both_stale THEN h.done_stopping ELSE FALSE
           suppressed == skipPublication(both_stale, done_stopping)
       IN  /\ status_' = r.status
           /\ internal_joint_state_' = r.internal_joint_state
           /\ delta_theta_' = r.delta_theta
           /\ IF ~r.ok
                THEN skipCycle(path, r.collision_scale)
              ELSE IF both_stale /\ h.threw
                THEN \* the exception leaves the thread function: std::terminate
                     /\ thread_' = "terminated"
                     /\ cycle' = [cycle EXCEPT !.path = path, !.halt = TRUE]
                     /\ UNCHANGED <<smoother_, updated_filters_, joint_trajectory,
                                    done_stopping_, ok_to_publish_, zero_velocity_count_>>
              ELSE /\ smoother_' = IF both_stale THEN h.smoother ELSE r.smoother
                   /\ updated_filters_' = r.updated_filters
                   /\ joint_trajectory' = IF both_stale THEN h.joint_trajectory
                                          ELSE r.joint_trajectory
                   /\ done_stopping_' = done_stopping
                   /\ ok_to_publish_' = ~suppressed
                   /\ zero_velocity_count_' = zeroVelocityCount(done_stopping)
                   /\ thread_' = "pub"
                   /\ cycle' = [cycle EXCEPT !.path = path, !.halt = both_stale,
                                             !.collision_scale = r.collision_scale,
                                             !.singularity = singularity,
                                             !.position_limits = r.position_limits,
                                             !.drift = drift]
  /\ UNCHANGED <<cmdVars, scratchVars, envVars, wait_for_servo_commands_,
                 original_joint_state_, last_sent_command_,
                 stop_requested_, paused_, new_input_cmd_, main_loop_mutex_, caller>>

\* the point of a trajectory with the fields the user did not request cleared
ClearUnrequested(trajectory) ==
  [trajectory EXCEPT ![1] =
     [positions |-> IF parameters.publish_joint_positions THEN @.positions ELSE <<>>,
      velocities |-> IF parameters.publish_joint_velocities THEN @.velocities ELSE <<>>,
      accelerations |-> IF parameters.publish_joint_accelerations
                          THEN @.accelerations ELSE <<>>]]

\* calculateSingleIteration from the publication to the end
Publish ==
  /\ thread_ = "pub"
  /\ IF ok_to_publish_ /\ ~paused_
       THEN /\ last_sent_command_' = ClearUnrequested(joint_trajectory)
            /\ cycle' = [cycle EXCEPT
                 !.log = publishTrajectory(@, ClearUnrequested(joint_trajectory)),
                 !.singularity = <<>>]
       ELSE /\ cycle' = [cycle EXCEPT !.singularity = <<>>]
            /\ UNCHANGED last_sent_command_
  /\ smoother_' = IF ~updated_filters_ THEN resetLowPassFilters(original_joint_state_)
                   ELSE smoother_
  /\ updated_filters_' = TRUE
  /\ thread_' = "end"
  /\ UNCHANGED <<cmdVars, scratchVars, envVars, status_, wait_for_servo_commands_,
                 done_stopping_, zero_velocity_count_, ok_to_publish_,
                 original_joint_state_, internal_joint_state_, delta_theta_, joint_trajectory,
                 stop_requested_, paused_, new_input_cmd_, main_loop_mutex_, caller>>

\* calculateSingleIteration has returned: the worker unlocks main_loop_mutex_
\* and sleeps for the rest of the period (lines 326-327), or leaves the scope
\* of main_loop_lock (line 329).  The members
\* that every iteration writes before it reads them (lines 345-379 and
\* 443-457) are never observed between two iterations: the model forgets
\* their values here, together with the record of the cycle.
Unlock ==
  /\ thread_ = "end"
  /\ thread_' = "while"
  /\ main_loop_mutex_' = "free"
  /\ twist_command_is_stale_' = FALSE
  /\ joint_command_is_stale_' = FALSE
  /\ ok_to_publish_' = FALSE
  /\ updated_filters_' = FALSE
  /\ original_joint_state_' = [position |-> Zeros(num_joints_), velocity |-> Zeros(num_joints_)]
  /\ internal_joint_state_' = [position |-> Zeros(num_joints_), velocity |-> Zeros(num_joints_)]
  /\ delta_theta_' = Zeros(num_joints_)
  /\ joint_trajectory' = NoTrajectory
  /\ cycle' = NewCycle
  /\ UNCHANGED <<cmdVars, envVars, status_, wait_for_servo_commands_, done_stopping_,
                 zero_velocity_count_, last_sent_command_, smoother_,
                 stop_requested_, paused_, new_input_cmd_, caller>>

(***************************************************************************)
(* start() and stop(), called from one user thread                          *)
(***************************************************************************)
\* stop_requested_ = true, on entry of stop() (also as called by start())
StopRequest(op) ==
  /\ caller.pc = "idle"
  /\ stop_requested_' = TRUE
  /\ caller' = [pc |-> "notify", op |-> op]
  /\ UNCHANGED <<cmdVars, scratchVars, loopVars, jointVars, envVars, cycle,
                 paused_, new_input_cmd_, main_loop_mutex_, thread_>>

\* the lock_guard block of stop(): new_input_cmd_ = false; notify_all
StopNotify ==
  /\ caller.pc = "notify"
  /\ main_loop_mutex_ = "free"
  /\ new_input_cmd_' = FALSE
  /\ caller' = [caller EXCEPT !.pc = "join"]
  /\ UNCHANGED <<cmdVars, scratchVars, loopVars, jointVars, envVars, cycle,
                 stop_requested_, paused_, main_loop_mutex_, thread_>>

\* stop() that returns without waiting for the worker to leave its loop
StopJoinDoesNotWait ==
  /\ caller.pc = "join"
  /\ caller' = IF caller.op = "start" THEN [caller EXCEPT !.pc = "spawn"]
               ELSE [pc |-> "idle", op |-> "none"]
  /\ UNCHANGED <<cmdVars, scratchVars, loopVars, jointVars, envVars, cycle,
                 stop_requested_, paused_, new_input_cmd_, main_loop_mutex_, thread_>>

\* if (thread_.joinable()) thread_.join()
StopJoin ==
  /\ caller.pc = "join"
  /\ thread_ \in {"none", "done"}
  /\ thread_' = "none"
  /\ caller' = IF caller.op = "start" THEN [caller EXCEPT !.pc = "spawn"]
               ELSE [pc |-> "idle", op |-> "none"]
  /\ UNCHANGED <<cmdVars, scratchVars, loopVars, jointVars, envVars, cycle,
                 stop_requested_, paused_, new_input_cmd_, main_loop_mutex_>>

\* start() from the initial message to the creation of the thread
StartThread ==
  /\ caller.pc = "spawn"
  /\ last_sent_command_' =
       << [positions |-> IF parameters.publish_joint_positions THEN robot_position ELSE <<>>,
           velocities |-> IF parameters.publish_joint_velocities
                            THEN Zeros(num_joints_) ELSE <<>>,
           accelerations |-> IF parameters.publish_joint_accelerations
                               THEN Zeros(num_joints_) ELSE <<>>] >>
  /\ stop_requested_' = FALSE
  /\ thread_' = "while"
  /\ caller' = [caller EXCEPT !.pc = "flag"]
  /\ UNCHANGED <<cmdVars, scratchVars, loopVars, envVars, cycle,
                 original_joint_state_, internal_joint_state_, delta_theta_,
                 joint_trajectory, smoother_,
                 paused_, new_input_cmd_, main_loop_mutex_>>

\* the last statement of start(): new_input_cmd_ = false, without the mutex
StartClearFlag ==
  /\ caller.pc = "flag"
  /\ new_input_cmd_' = FALSE
  /\ caller' = [pc |-> "idle", op |-> "none"]
  /\ UNCHANGED <<cmdVars, scratchVars, loopVars, jointVars, envVars, cycle,
                 stop_requested_, paused_, main_loop_mutex_, thread_>>

(***************************************************************************)
(* The system                                                               *)
(***************************************************************************)
Next ==
  \/ \E t \in TwistCommands : twistStampedCB([stamp |-> Stamped, twist |-> t])
  \/ \E v \in JointJogCommands : jointCmdCB(JointJog(Stamped, v))
  \/ \E c \in 0..ScaleDen : collisionVelocityScaleCB(c)
  \/ resetServoStatus
  \/ \E p \in BOOLEAN : setPaused(p)
  \/ Tick
  \/ RobotMoves
  \/ LoopCondition
  \/ CycleBegin
  \/ Calc
  \/ Publish
  \/ Unlock
  \/ thread_ = "none" /\ StopRequest("start")
  \/ StopNotify
  \/ StopJoin
  \/ StartThread
  \/ StartClearFlag

\* the node with its default parameters; the user calls start() once
Spec == Init /\ [][Next]_vars

\* the node asked to republish forever
InitRepublishForever == InitWith({RepublishForeverParameters})
SpecRepublishForever == InitRepublishForever /\ [][Next]_vars

\* A node whose commands are unitless: the callers send commands within
\* [-1, 1], commands out of that range and commands with a NaN component
UnitlessParameters == [DefaultParameters EXCEPT !.command_in_type = "unitless"]
UnitlessTwistCommands == {<<-1, 0, 0, 0, 0, 0>>, <<-2, 0, 0, 0, 0, 0>>, <<NaN, 0, 0, 0, 0, 0>>}
UnitlessJointJogCommands == {<<1, 0>>, <<2, 0>>, <<0, NaN>>}

InitUnitless == InitWith({UnitlessParameters})

NextUnitless ==
  \/ \E t \in UnitlessTwistCommands : twistStampedCB([stamp |-> Stamped, twist |-> t])
  \/ \E v \in UnitlessJointJogCommands : jointCmdCB(JointJog(Stamped, v))
  \/ Tick
  \/ RobotMoves
  \/ LoopCondition
  \/ CycleBegin
  \/ Calc
  \/ Publish
  \/ Unlock
  \/ thread_ = "none" /\ StopRequest("start")
  \/ StopNotify
  \/ StopJoin
  \/ StartThread
  \/ StartClearFlag

SpecUnitless == InitUnitless /\ [][NextUnitless]_vars

\* A node that halts the violating joints only in joint mode and every joint
\* in Cartesian mode, or the other way round.  The robot starts in the middle
\* of its range or with joint 1 at its upper bound; the commands move both
\* joints, or joint 2 alone.
HaltCandidatesInCartesianModeParameters ==
  [DefaultParameters EXCEPT !.halt_all_joints_in_joint_mode = TRUE,
                            !.halt_all_joints_in_cartesian_mode = FALSE]
HaltTwistCommands == {<<1, -1, 0, 0, 0, 0>>}
HaltJointJogCommands == {<<3, -1>>, <<0, -1>>}
HaltInitialPositions == {<<2, 2>>, <<max_position, 2>>}

InitHalt ==
  InitFrom({DefaultParameters, HaltCandidatesInCartesianModeParameters}, HaltInitialPositions)

NextHalt ==
  \/ \E t \in HaltTwistCommands : twistStampedCB([stamp |-> Stamped, twist |-> t])
  \/ \E v \in HaltJointJogCommands : jointCmdCB(JointJog(Stamped, v))
  \/ Tick
  \/ RobotMoves
  \/ LoopCondition
  \/ CycleBegin
  \/ Calc
  \/ Publish
  \/ Unlock
  \/ thread_ = "none" /\ StopRequest("start")
  \/ StopNotify
  \/ StopJoin
  \/ StartThread
  \/ StartClearFlag

SpecHalt == InitHalt /\ [][NextHalt]_vars

\* A node whose drift dimensions are changed through the service while it
\* servoes on twists.  The sets of drifting dimensions leave the gantry's
\* Jacobian a single row or of full rank: the rotations; two of them; all but
\* x; all but y; all six.
DriftingSets == {{}, {4, 5, 6}, {4, 6}, {2, 3, 4, 5, 6}, {1, 3, 4, 5, 6}, {1, 2, 3, 4, 5, 6}}
DriftRequests == {[d \in 1..6 |-> d \in drifting] : drifting \in DriftingSets}
DriftTwistCommands == {<<-1, 1, 1, 0, 0, 1>>}

NextDrift ==
  \/ \E t \in DriftTwistCommands : twistStampedCB([stamp |-> Stamped, twist |-> t])
  \/ \E req \in DriftRequests : changeDriftDimensions(req)
  \/ Tick
  \/ RobotMoves
  \/ LoopCondition
  \/ CycleBegin
  \/ Calc
  \/ Publish
  \/ Unlock
  \/ thread_ = "none" /\ StopRequest("start")
  \/ StopNotify
  \/ StopJoin
  \/ StartThread
  \/ StartClearFlag

SpecDrift == Init /\ [][NextDrift]_vars

\* A node whose change_drift_dimensions service is followed statement by
\* statement.  The requests let the rotations drift or none: every mask on
\* the way from one to the other leaves the gantry's Jacobian of full rank.
ServiceDriftingSets == {{}, {4, 5, 6}}
ServiceDriftRequests == {[d \in 1..6 |-> d \in drifting] : drifting \in ServiceDriftingSets}

NextDriftService ==
  \/ \E t \in DriftTwistCommands : twistStampedCB([stamp |-> Stamped, twist |-> t])
  \/ \E req \in ServiceDriftRequests : changeDriftDimensionsBegin(req)
  \/ changeDriftDimensionsWrite
  \/ Tick
  \/ RobotMoves
  \/ LoopCondition
  \/ CycleBegin
  \/ Calc
  \/ Publish
  \/ Unlock
  \/ thread_ = "none" /\ StopRequest("start")
  \/ StopNotify
  \/ StopJoin
  \/ StartThread
  \/ StartClearFlag

SpecDriftService == Init /\ [][NextDriftService]_vars

\* A node whose callers send commands with a stamp and commands with stamp 0
Stamps == {0, Stamped}

NextStamps ==
  \/ \E t \in TwistCommands, s \in Stamps : twistStampedCB([stamp |-> s, twist |-> t])
  \/ \E v \in JointJogCommands, s \in Stamps : jointCmdCB(JointJog(s, v))
  \/ Tick
  \/ RobotMoves
  \/ LoopCondition
  \/ CycleBegin
  \/ Calc
  \/ Publish
  \/ Unlock
  \/ thread_ = "none" /\ StopRequest("start")
  \/ StopNotify
  \/ StopJoin
  \/ StartThread
  \/ StartClearFlag

SpecStamps == Init /\ [][NextStamps]_vars

\* The worker thread's steps
Worker == LoopCondition \/ CycleBegin \/ Calc \/ Publish \/ Unlock

\* A node in normal or in low latency mode that receives twists only, is
\* never paused and sees no obstacle.  The worker thread is scheduled whenever
\* it can take a step and the clock keeps running.
InitFair == InitWith({DefaultParameters, LowLatencyParameters})

NextFair ==
  \/ \E t \in TwistCommands : twistStampedCB([stamp |-> Stamped, twist |-> t])
  \/ Tick
  \/ RobotMoves
  \/ Worker
  \/ thread_ = "none" /\ StopRequest("start")
  \/ StopNotify
  \/ StopJoin
  \/ StartThread
  \/ StartClearFlag

FairSpec == InitFair /\ [][NextFair]_vars /\ WF_vars(Worker) /\ WF_vars(Tick)

(***************************************************************************)
(* What a cycle has published                                               *)
(***************************************************************************)
\* calculateSingleIteration has returned and the worker still holds the lock
CycleOver == thread_ = "end"

\* the cycle has published a trajectory message
TrajectoryPublished ==
  \E k \in 1..Len(cycle.log) : cycle.log[k].type = "trajectory"

\* the point of the trajectory message the cycle has published
PublishedPoint == cycle.log[Len(cycle.log)].data[1]

\* the cycle's trajectory came out of internalServoUpdate
ServoUpdatePublished ==
  CycleOver /\ TrajectoryPublished /\ cycle.path \in {"cartesian", "joint"}

(***************************************************************************)
(* Properties                                                               *)
(***************************************************************************)
\* C1: in every cycle that publishes a trajectory produced by
\* internalServoUpdate, every outgoing joint velocity is within the joint's
\* velocity bound.
C1_PublishedVelocityWithinLimit ==
  ServoUpdatePublished =>
    \A i \in 1..Len(PublishedPoint.velocities) :
      Abs(PublishedPoint.velocities[i]) <= max_velocity

\* C2: every published position of a bounded joint lies within
\* [min_position - joint_limit_margin, max_position + joint_limit_margin].
C2_PublishedPositionWithinBounds ==
  TrajectoryPublished =>
    \A i \in 1..Len(PublishedPoint.positions) :
      satisfiesPositionBounds(PublishedPoint.positions[i], joint_limit_margin)

\* a joint jog that would leave the bounds was halted and the halted point
\* was published
C2_Witness ==
  /\ ServoUpdatePublished
  /\ cycle.path = "joint"
  /\ status_ = "JOINT_BOUND"
  /\ PublishedPoint.positions = original_joint_state_.position

\* C3: when the collision velocity scale is 0 in a cycle that runs
\* internalServoUpdate, every published velocity of the cycle is 0 and the
\* status is HALT_FOR_COLLISION or JOINT_BOUND.
C3_CollisionHaltPublishesZeroVelocity ==
  (ServoUpdatePublished /\ cycle.collision_scale = 0) =>
    /\ \A i \in 1..Len(PublishedPoint.velocities) : PublishedPoint.velocities[i] = 0
    /\ status_ \in {"HALT_FOR_COLLISION", "JOINT_BOUND"}

\* C4 as stated: in a cycle during which the loop is waiting or paused,
\* setPaused(true) in the middle of the cycle included, no trajectory is
\* published and the filter ends the cycle reset to the cycle's snapshot.
C4_PausedAnywhereResetsFilter ==
  (CycleOver /\ (cycle.waiting_at_check \/ cycle.paused_at_check \/ paused_)) =>
    /\ ~TrajectoryPublished
    /\ smoother_ = original_joint_state_.position

\* C4: in a cycle that finds the loop waiting or paused at its check on entry,
\* no trajectory is published and the filter ends the cycle reset to the
\* cycle's snapshot; a cycle that finds paused_ set at the publication check
\* publishes no trajectory.
C4_PausedAtCheckResetsFilter ==
  /\ (CycleOver /\ (cycle.waiting_at_check \/ cycle.paused_at_check)) =>
       /\ ~TrajectoryPublished
       /\ smoother_ = original_joint_state_.position
  /\ (CycleOver /\ paused_) => ~TrajectoryPublished

\* a paused cycle ended while a fresh nonzero joint jog was waiting, with the
\* filter away from the previous command
C4_Witness ==
  /\ CycleOver
  /\ cycle.paused_at_check /\ ~cycle.waiting_at_check
  /\ have_nonzero_joint_command_ /\ ~joint_command_is_stale_
  /\ smoother_ # last_sent_command_[1].positions

\* C5: every cycle publishes exactly one status message, before any
\* trajectory message of the same cycle.
C5_OneStatusBeforeTrajectory ==
  thread_ \in {"calc", "pub", "end", "terminated"} =>
    /\ Len(cycle.log) >= 1
    /\ cycle.log[1].type = "status"
    /\ \A k \in 2..Len(cycle.log) : cycle.log[k].type = "trajectory"
    /\ Len(cycle.log) <= 2

\* a cycle has published its status and then its trajectory
C5_Witness == CycleOver /\ Len(cycle.log) = 2 /\ cycle.log[2].type = "trajectory"

\* C6: the status a cycle publishes is the value status_ had when the cycle
\* began, and status_ is NO_WARNING right after the publication.
C6_StatusOfEarlierCycles ==
  [][(thread_ = "lock" /\ thread_' # "lock") =>
       /\ cycle'.log = << [type |-> "status", data |-> status_] >>
       /\ status_' = "NO_WARNING"]_vars

\* a cycle has published the JOINT_BOUND raised by the cycle before it and
\* has not raised a warning itself
C6_Witness ==
  /\ CycleOver
  /\ cycle.log[1].data = "JOINT_BOUND"
  /\ status_ = "NO_WARNING"

\* C7: a cycle that finds both commands stale publishes the point built by
\* filteredHalt.
C7_HaltPointPublished ==
  (CycleOver /\ cycle.halt /\ ~paused_) => TrajectoryPublished

\* C8: with num_outgoing_halt_msgs_to_publish = n > 0, a cycle with all-zero
\* commands and done_stopping_ set publishes a halt message as long as no
\* more than n such cycles have run.
C8_HaltMessagesAfterStopping ==
  ( /\ CycleOver /\ ~paused_
    /\ parameters.num_outgoing_halt_msgs_to_publish > 0
    /\ ~have_nonzero_command_ /\ done_stopping_
    /\ zero_velocity_count_ <= parameters.num_outgoing_halt_msgs_to_publish )
  => TrajectoryPublished

\* C9: with num_outgoing_halt_msgs_to_publish = 0, every cycle that is neither
\* waiting nor paused nor skipped for an invalid command publishes a
\* trajectory message.
C9_RepublishForever ==
  ( /\ CycleOver /\ ~paused_
    /\ parameters.num_outgoing_halt_msgs_to_publish = 0
    /\ cycle.path # "waiting" /\ ~cycle.skipped )
  => TrajectoryPublished

\* the loop is active and no command of either type has arrived for the timeout
NoCommandForTimeout ==
  /\ thread_ \in {"while", "lock", "calc", "pub", "end"}
  /\ ~stop_requested_ /\ ~wait_for_servo_commands_ /\ ~paused_
  /\ twist_command_age = incoming_command_timeout
  /\ joint_command_age = incoming_command_timeout

\* a cycle has found both commands stale and has run filteredHalt
StaleHaltRuns == thread_ = "pub" /\ cycle.halt

\* C10 as stated: in normal and in low latency mode, once the loop is active
\* and no command has arrived for the timeout, a cycle eventually finds both
\* commands stale and runs filteredHalt, unless a command arrives first.
C10_StaleHaltInBothModes ==
  NoCommandForTimeout ~> (StaleHaltRuns \/ ~NoCommandForTimeout)

\* C10: in normal mode, once the loop is active and no command has arrived for
\* the timeout, a cycle eventually finds both commands stale and runs
\* filteredHalt, unless a command arrives first.
C10_StaleHaltInNormalMode ==
  (NoCommandForTimeout /\ ~parameters.low_latency_mode)
    ~> (StaleHaltRuns \/ ~NoCommandForTimeout)

\* in normal mode a cycle of the active loop ran filteredHalt
C10_Witness ==
  /\ StaleHaltRuns
  /\ ~parameters.low_latency_mode
  /\ NoCommandForTimeout

\* C11: an active cycle takes the Cartesian path when the latest twist is
\* nonzero and not stale, whatever the joint jog is; otherwise the joint path
\* when the latest joint jog is nonzero and not stale; otherwise its message is
\* the last sent command with every velocity set to 0.
C11_StrictPriority ==
  thread_ = "pub" =>
    LET twist_runs == latest_twist_cmd_is_nonzero_ /\ twist_command_age < incoming_command_timeout
        jog_runs == latest_joint_cmd_is_nonzero_ /\ joint_command_age < incoming_command_timeout
    IN  /\ twist_runs => cycle.path = "cartesian"
        /\ (~twist_runs /\ jog_runs) => cycle.path = "joint"
        /\ (~twist_runs /\ ~jog_runs) =>
              /\ cycle.path = "republish"
              /\ ~cycle.halt =>
                    /\ Len(joint_trajectory) = Len(last_sent_command_)
                    /\ \A p \in 1..Len(joint_trajectory) :
                          /\ joint_trajectory[p].positions = last_sent_command_[p].positions
                          /\ \A i \in 1..Len(joint_trajectory[p].velocities) :
                                joint_trajectory[p].velocities[i] = 0

\* a cycle took the Cartesian path while a fresh nonzero joint jog was waiting
C11_Witness ==
  /\ thread_ = "pub"
  /\ cycle.path = "cartesian"
  /\ latest_joint_cmd_is_nonzero_ /\ joint_command_age < incoming_command_timeout

\* the components of the command that the cycle's path has selected
SelectedComponents ==
  IF cycle.path = "cartesian" THEN {twist_stamped_cmd_.twist[i] : i \in 1..6}
  ELSE IF cycle.path = "joint"
    THEN {joint_servo_cmd_.velocities[i] : i \in 1..Len(joint_servo_cmd_.velocities)}
  ELSE {}

\* C12: a cycle whose selected command, a twist or a joint jog, has a NaN
\* component, or in unitless mode a component of absolute value above 1, is
\* skipped and publishes no trajectory.
C12_InvalidCommandSkipsCycle ==
  (CycleOver /\ cycle.path \in {"cartesian", "joint"}) =>
    ((\/ \E x \in SelectedComponents : isnan(x)
      \/ /\ parameters.command_in_type = "unitless"
         /\ \E x \in SelectedComponents : Abs(x) > 1)
       => (cycle.skipped /\ ~TrajectoryPublished))

\* C13: on motion toward the singularity the scale is 1 up to the lower
\* threshold, 1 - (k - lower) / (hard - lower) with DECELERATE_FOR_SINGULARITY
\* between the thresholds and 0 with HALT_FOR_SINGULARITY from the hard stop
\* threshold on, the threshold itself included; on motion away it is 1.
C13_SingularityScalePiecewise ==
  (thread_ = "pub" /\ cycle.singularity # <<>>) =>
    LET call == cycle.singularity[1]
        k == call.ini_condition
    IN  IF ~call.toward \/ k <= lower_singularity_threshold
          THEN call.result.velocity_scale = ScaleDen
        ELSE IF k < hard_stop_singularity_threshold
          THEN /\ call.result.velocity_scale =
                    ScaleDen - TruncDiv((k - lower_singularity_threshold) * ScaleDen,
                                        hard_stop_singularity_threshold
                                          - lower_singularity_threshold)
               /\ call.result.status = "DECELERATE_FOR_SINGULARITY"
        ELSE /\ call.result.velocity_scale = 0
             /\ call.result.status = "HALT_FOR_SINGULARITY"

\* C14: the joints enforcePositionLimits selects are those whose position is
\* outside the bounds shrunk by the margin on the side its pending velocity
\* points to; after the update every selected joint is at its position of
\* the snapshot with velocity 0, and the status is JOINT_BOUND.
C14_HaltCandidates ==
  (thread_ = "pub" /\ cycle.position_limits # <<>>) =>
    LET call == cycle.position_limits[1]
        below(j) == call.joint_state.position[j] < min_position + joint_limit_margin
        above(j) == call.joint_state.position[j] > max_position - joint_limit_margin
    IN  /\ \A j \in Joints :
              j \in call.joints_to_halt <=>
                \/ below(j) /\ call.joint_state.velocity[j] < 0
                \/ above(j) /\ call.joint_state.velocity[j] > 0
        /\ \A j \in call.joints_to_halt :
              /\ internal_joint_state_.position[j] = original_joint_state_.position[j]
              /\ internal_joint_state_.velocity[j] = 0
        /\ call.joints_to_halt # {} => status_ = "JOINT_BOUND"

\* a joint is selected and set back to the snapshot
C14_WitnessSelected ==
  /\ thread_ = "pub" /\ cycle.position_limits # <<>>
  /\ cycle.position_limits[1].joints_to_halt # {}
  /\ internal_joint_state_.position # cycle.position_limits[1].joint_state.position

\* joint 2 is selected while joint 1, also past a margin, is not: its
\* velocity does not point outward
C14_Witness ==
  /\ thread_ = "pub" /\ cycle.position_limits # <<>>
  /\ 2 \in cycle.position_limits[1].joints_to_halt
  /\ 1 \notin cycle.position_limits[1].joints_to_halt
  /\ ~satisfiesPositionBounds(cycle.position_limits[1].joint_state.position[1],
                              -joint_limit_margin)

\* the joints that the cycle's update halts
HaltedJoints ==
  IF \/ cycle.path = "joint" /\ ~parameters.halt_all_joints_in_joint_mode
     \/ cycle.path = "cartesian" /\ ~parameters.halt_all_joints_in_cartesian_mode
    THEN cycle.position_limits[1].joints_to_halt
    ELSE Joints

\* C15: when enforcePositionLimits returns at least one joint, the update
\* halts exactly the returned joints if the mode's halt_all_joints parameter is
\* false, the other joints keeping their updated position and velocity, and
\* every joint of the group otherwise.
C15_HaltScope ==
  (/\ thread_ = "pub" /\ cycle.position_limits # <<>>
   /\ cycle.position_limits[1].joints_to_halt # {}) =>
    \A j \in Joints :
      /\ internal_joint_state_.position[j] =
           IF j \in HaltedJoints THEN original_joint_state_.position[j]
           ELSE cycle.position_limits[1].joint_state.position[j]
      /\ internal_joint_state_.velocity[j] =
           IF j \in HaltedJoints THEN 0
           ELSE cycle.position_limits[1].joint_state.velocity[j]
      /\ joint_trajectory[1].positions[j] = internal_joint_state_.position[j]
      /\ joint_trajectory[1].velocities[j] = internal_joint_state_.velocity[j]

\* a Cartesian cycle halts joint 1 only, and joint 2 moves on
C15_Witness ==
  /\ thread_ = "pub" /\ cycle.position_limits # <<>>
  /\ cycle.path = "cartesian"
  /\ cycle.position_limits[1].joints_to_halt = {1}
  /\ internal_joint_state_.velocity[2] # 0
  /\ internal_joint_state_.position[1] # cycle.position_limits[1].joint_state.position[1]

\* a joint cycle halts every joint although only joint 1 was returned
C15_WitnessAll ==
  /\ thread_ = "pub" /\ cycle.position_limits # <<>>
  /\ cycle.path = "joint"
  /\ cycle.position_limits[1].joints_to_halt = {1}
  /\ cycle.position_limits[1].joint_state.velocity[2] # 0
  /\ internal_joint_state_.velocity[2] = 0

\* the dimensions whose rows removeDriftDimensions has to leave
SurvivingDimensions ==
  IF \A d \in 1..6 : drift_dimensions_[d] THEN {1}
  ELSE {d \in 1..6 : ~drift_dimensions_[d]}

\* C16: after removeDriftDimensions the Jacobian and delta_x have the same
\* number of rows, at least one; the rows are those of the dimensions that do
\* not drift, in their original order and with their original values, row j
\* and entry j belonging to the same dimension; when all six dimensions
\* drift, the one row left is that of the first dimension.
C16_DriftRowsRemoved ==
  (thread_ = "pub" /\ cycle.drift # <<>>) =>
    LET call == cycle.drift[1]
        jacobian == call.result.jacobian
        delta_x == call.result.delta_x
    IN  /\ Len(jacobian) = Len(delta_x)
        /\ Len(jacobian) >= 1
        /\ {jacobian[r].dimension : r \in 1..Len(jacobian)} = SurvivingDimensions
        /\ \A r \in 1..Len(jacobian) :
              /\ jacobian[r].dimension = delta_x[r].dimension
              /\ jacobian[r] = call.jacobian[jacobian[r].dimension]
              /\ delta_x[r] = call.delta_x[delta_x[r].dimension]
              /\ \A s \in 1..Len(jacobian) :
                    r < s => jacobian[r].dimension < jacobian[s].dimension

\* all six dimensions drift and the row of the first dimension is left
C16_Witness ==
  /\ thread_ = "pub" /\ cycle.drift # <<>>
  /\ \A d \in 1..6 : drift_dimensions_[d]
  /\ Len(cycle.drift[1].result.jacobian) = 1
  /\ cycle.drift[1].result.delta_x[1].dimension = 1

\* a row is removed from the middle of the matrix
C16_WitnessMiddle ==
  /\ thread_ = "pub" /\ cycle.drift # <<>>
  /\ Len(cycle.drift[1].result.jacobian) = 4
  /\ cycle.drift[1].result.delta_x[4].dimension = 5

\* the worker is inside calculateSingleIteration, past the staleness test
InCycle == thread_ \in {"calc", "pub", "end"}

\* the cycle works on the values and the nonzero flag of the most recently
\* arrived command of each type
UsesLastArrivedValues ==
  /\ twist_stamped_cmd_ =
       IF arrived.twist = <<>> THEN DefaultTwistStamped ELSE arrived.twist[1].msg
  /\ have_nonzero_twist_stamped_ = isNonZeroTwist(twist_stamped_cmd_)
  /\ joint_servo_cmd_ =
       IF arrived.joint = <<>> THEN DefaultJointJog ELSE arrived.joint[1].msg
  /\ have_nonzero_joint_command_ = isNonZeroJog(joint_servo_cmd_)

\* C17 as stated: a cycle uses the values, the nonzero flag and the stamp of
\* the most recently arrived command of each type: the command is found
\* stale iff the time since that command's stamp has reached the timeout.
C17_UsesLastArrivedWithItsStamp ==
  InCycle =>
    /\ UsesLastArrivedValues
    /\ arrived.twist # <<>> =>
         twist_command_is_stale_ = (arrived.twist[1].age >= incoming_command_timeout)
    /\ arrived.joint # <<>> =>
         joint_command_is_stale_ = (arrived.joint[1].age >= incoming_command_timeout)

\* C17: a cycle uses the values and the nonzero flag of the most recently
\* arrived command of each type, and its stamp for the staleness test when
\* that stamp is not 0; no earlier command's values are processed.
C17_UsesLastArrived ==
  InCycle =>
    /\ UsesLastArrivedValues
    /\ (arrived.twist # <<>> /\ arrived.twist[1].msg.stamp # 0) =>
         twist_command_is_stale_ = (arrived.twist[1].age >= incoming_command_timeout)
    /\ (arrived.joint # <<>> /\ arrived.joint[1].msg.stamp # 0) =>
         joint_command_is_stale_ = (arrived.joint[1].age >= incoming_command_timeout)

\* a cycle runs on a nonzero twist with stamp 0 that replaced a stamped twist,
\* and finds it fresh by the stamp of the replaced one
C17_Witness ==
  /\ thread_ = "pub"
  /\ cycle.path = "cartesian"
  /\ arrived.twist # <<>> /\ arrived.twist[1].msg.stamp = 0
  /\ twist_stamped_cmd_ = arrived.twist[1].msg
  /\ ~twist_command_is_stale_

\* C18: the arrival of a command with stamp 0 leaves the time since the
\* latest command stamp of its type as it is, and as long as no command with
\* a nonzero stamp has arrived the loop is waiting for servo commands and no
\* cycle publishes a trajectory.
C18_StampZeroKeepsWaiting ==
  [][/\ \A t \in TwistCommands :
          twistStampedCB([stamp |-> 0, twist |-> t]) => twist_command_age' = twist_command_age
     /\ \A v \in JointJogCommands :
          jointCmdCB(JointJog(0, v)) => joint_command_age' = joint_command_age
     /\ ~arrived'.stamped =>
          /\ wait_for_servo_commands_'
          /\ \A n \in 1..Len(cycle'.log) : cycle'.log[n].type # "trajectory"]_vars

\* a waiting cycle has run after nonzero commands with stamp 0 of both types
C18_Witness ==
  /\ thread_ = "end"
  /\ cycle.path = "waiting"
  /\ ~arrived.stamped
  /\ arrived.twist # <<>> /\ isNonZeroTwist(arrived.twist[1].msg)
  /\ arrived.joint # <<>> /\ isNonZeroJog(arrived.joint[1].msg)

\* C19: in low latency mode every command that arrives in the lifetime of the
\* worker thread, the execution of start() included, is followed by the
\* beginning of an iteration, which works on that command or on a later one.
C19_NoWakeupLost ==
  (parameters.low_latency_mode /\ arrived.unobserved) ~> ~arrived.unobserved

(***************************************************************************)
(* start() and stop() called again and again                                *)
(***************************************************************************)
\* The steps of the thread that calls start() and stop(), past the request
Caller == StopNotify \/ StopJoin \/ StartThread \/ StartClearFlag

\* A node in normal or in low latency mode that receives twists; the user
\* calls start() when no worker thread exists and stop() at any point of the
\* worker's loop.  The worker and the calling thread are scheduled whenever
\* they can take a step.
NextStop ==
  \/ \E t \in TwistCommands : twistStampedCB([stamp |-> Stamped, twist |-> t])
  \/ Tick
  \/ RobotMoves
  \/ Worker
  \/ thread_ = "none" /\ StopRequest("start")
  \/ thread_ # "none" /\ StopRequest("stop")
  \/ StopNotify
  \/ StopJoin
  \/ StartThread
  \/ StartClearFlag

SpecStop == InitFair /\ [][NextStop]_vars /\ WF_vars(Worker) /\ WF_vars(Caller)

\* stop() called by the user returns, with the worker thread joined
StopReturns ==
  (caller.op = "stop") ~> (caller.pc = "idle" /\ thread_ = "none")

\* C20: the worker begins no cycle after it has observed the stop request:
\* not after the loop condition, which leaves the loop, and not after the
\* wait on the condition variable has returned on stop_requested_ alone.
C20_NoCycleAfterStopObserved ==
  [][CycleBegin =>
       ~(parameters.low_latency_mode /\ ~new_input_cmd_ /\ stop_requested_)]_vars

\* C21: the worker does not hold main_loop_mutex_ while it runs the servo
\* calculation of a cycle (the Jacobian, its SVD and pseudo inverse, the
\* smoothing plugin): the mutex is free when that calculation is about to run.
C21_MutexFreeDuringCalculation ==
  thread_ = "calc" => main_loop_mutex_ # "worker"

\* C22: the drift dimension mask is written under main_loop_mutex_, so that
\* no cycle works with a partially updated mask: the mask a cycle reads in
\* removeDriftDimensions is the initial one or one that a caller requested.
C22_NoPartiallyUpdatedMask ==
  (thread_ = "pub" /\ cycle.drift # <<>>) =>
    cycle.drift[1].drift_dimensions \in
      ServiceDriftRequests \cup {[d \in 1..6 |-> FALSE]}

(***************************************************************************)
(* start() called while a worker thread runs                                *)
(***************************************************************************)
\* A node in normal or in low latency mode that receives twists; the user
\* calls start() and stop() one after the other in any order, whether a
\* worker thread runs or not.
NextRestart ==
  \/ \E t \in TwistCommands : twistStampedCB([stamp |-> Stamped, twist |-> t])
  \/ Tick
  \/ RobotMoves
  \/ Worker
  \/ StopRequest("start")
  \/ StopRequest("stop")
  \/ StopNotify
  \/ StopJoin
  \/ StartThread
  \/ StartClearFlag

SpecRestart == InitFair /\ [][NextRestart]_vars

\* C23: at most one worker thread runs mainCalcLoop at any time: start()
\* creates the thread only when no earlier worker thread is left, the
\* earlier one having returned from mainCalcLoop and been joined.
C23_OneWorkerThread ==
  [][StartThread => thread_ = "none"]_vars

\* start() called while a worker thread is in the middle of a cycle waits for
\* that thread in the join of stop()
C23_Witness ==
  /\ caller.op = "start"
  /\ caller.pc = "join"
  /\ thread_ \in {"calc", "pub", "end"}

\* start() has created a worker thread after an earlier one has servoed
C23_WitnessRestarted ==
  /\ caller.op = "start"
  /\ caller.pc = "flag"
  /\ thread_ = "while"
  /\ ~wait_for_servo_commands_

(***************************************************************************)
(* applySmoothing on short trajectories                                     *)
(***************************************************************************)
\* Waypoints at rest at the origin and within IDENTICAL_POSITION_EPSILON of
\* it, and a moving waypoint away from both; segments of no duration and of
\* two timesteps
InputWaypoints == {State(<<0, 0>>, <<0, 0>>), State(<<1, 0>>, <<0, 0>>),
                   State(<<5, 0>>, <<3, 0>>)}
SegmentDurations == {0, 2}

Trajectories ==
  UNION {{[i \in 1..n |-> [state |-> w[i], duration_from_previous |-> d]] :
            w \in [1..n -> InputWaypoints]} :
         n \in 0..MaxWaypoints, d \in SegmentDurations}

NextSmoothing ==
  \/ \E argument \in Trajectories : applySmoothingBegin(argument)
  \/ \E result \in RuckigResults, new_velocity \in NewVelocities :
       whileBody(result, new_velocity)
  \/ nextWaypoint

SpecSmoothing == Init /\ [][NextSmoothing]_vars

\* the run of near-identical waypoints of a trajectory is the whole of it
FewerThanTwoDistinct(trajectory) ==
  \/ Len(trajectory) < 2
  \/ \A i \in 1..(Len(trajectory) - 1) :
        checkForIdenticalWaypoints(trajectory[i].state, trajectory[i + 1].state)

\* C24: the waypoints that applySmoothing hands to the generator hold no two
\* consecutive waypoints within IDENTICAL_POSITION_EPSILON of each other, and
\* they are no more than the waypoints of the input.
C24_RepeatedWaypointsCollapsed ==
  smoothing.pc = "while" =>
    /\ \A i \in 1..(Len(smoothing.trajectory) - 1) :
          ~checkForIdenticalWaypoints(smoothing.trajectory[i].state,
                                      smoothing.trajectory[i + 1].state)
    /\ Len(smoothing.trajectory) <= Len(smoothing.input)

\* C25: applySmoothing returns false when its input has fewer than two
\* waypoints and when all its waypoints collapse into one.
C25_FailsOnFewerThanTwoDistinct ==
  (smoothing.pc = "returned" /\ FewerThanTwoDistinct(smoothing.input)) =>
    smoothing.returned = <<FALSE>>

\* C26: when applySmoothing returns true the caller's trajectory starts with
\* the first waypoint of the input at duration 0, and goes on with one
\* waypoint for each output of the generator that was added, each at
\* DEFAULT_RUCKIG_TIMESTEP from the one before.
C26_OutputAtFixedTimestep ==
  smoothing.returned = <<TRUE>> =>
    /\ smoothing.trajectory[1] =
         [state |-> smoothing.input[1].state, duration_from_previous |-> 0]
    /\ Len(smoothing.trajectory) = 1 + smoothing.added
    /\ \A i \in 2..Len(smoothing.trajectory) :
          smoothing.trajectory[i].duration_from_previous = DEFAULT_RUCKIG_TIMESTEP

\* a smoothed trajectory of three waypoints or more
C26_Witness ==
  /\ smoothing.returned = <<TRUE>>
  /\ Len(smoothing.trajectory) >= 3
  /\ smoothing.updates > smoothing.added

\* C27: after a pass that detected backward motion, the generator is called
\* again for the same target with the target velocity multiplied by 0.9 and
\* the target acceleration recomputed from it.
C27_RetriedWithDecreasedTarget ==
  (/\ smoothing.pc = "while"
   /\ smoothing.pass # <<>>
   /\ smoothing.backward_motion_detected) =>
    /\ smoothing.pass[1].waypoint_idx = smoothing.waypoint_idx
    /\ SameDecimal(smoothing.ruckig_input.target_velocity,
                   smoothing.pass[1].ruckig_input.target_velocity)
    /\ SameDecimal(smoothing.ruckig_input.target_acceleration,
                   smoothing.pass[1].ruckig_input.target_acceleration)

\* C28: a pass of the while loop ends applySmoothing with false exactly when
\* it detected backward motion and the magnitude of the target velocity it
\* decreased is below MINIMUM_VELOCITY_SEARCH_MAGNITUDE.
C28_AbortsOnlyBelowMinimumVelocity ==
  smoothing.pass # <<>> =>
    ((smoothing.pc = "returned" /\ smoothing.returned = <<FALSE>>)
       <=> /\ smoothing.pass[1].backward_motion_detected
           /\ belowMinimumVelocity(
                 << getTargetVelocityMagnitude(smoothing.pass[1].ruckig_input) >>))

\* a pass that ended applySmoothing after waypoints had been added
C28_Witness ==
  /\ smoothing.returned = <<FALSE>>
  /\ smoothing.pass # <<>>
  /\ smoothing.pass[1].backward_motion_detected
  /\ smoothing.added > 0

\* a pass that detected backward motion and went on
C28_WitnessGoesOn ==
  /\ smoothing.pc = "while"
  /\ smoothing.pass # <<>>
  /\ smoothing.pass[1].backward_motion_detected

\* C29: when applySmoothing returns false the caller's trajectory holds no
\* output of the generator: it is as the code before the generator left it.
C29_NoOutputOnFailure ==
  smoothing.returned = <<FALSE>> =>
    smoothing.trajectory =
      IF Len(smoothing.input) < 2 THEN smoothing.input
      ELSE removeRepeatedWaypoints(smoothing.input, 0, Len(smoothing.input))

\* applySmoothing returns false with waypoints in its output trajectory
C29_Witness ==
  /\ smoothing.returned = <<FALSE>>
  /\ Len(smoothing.output_trajectory) >= 2

\* the variables that a skipped cycle is to leave alone
LoopState ==
  <<done_stopping_, zero_velocity_count_, wait_for_servo_commands_, paused_,
    last_sent_command_>>

\* C30: a cycle that is skipped because the servo calculation rejects the
\* selected command leaves done_stopping_, zero_velocity_count_,
\* wait_for_servo_commands_, paused_ and last_sent_command_ as they were when
\* the cycle began, publishes no trajectory, and ends where every cycle ends,
\* from where the loop goes on.
C30_SkippedCycleLeavesLoopState ==
  [][/\ (thread_ = "lock" /\ thread_' = "calc") => UNCHANGED LoopState
     /\ (thread_ = "calc" /\ cycle'.skipped) =>
           /\ UNCHANGED LoopState
           /\ joint_trajectory' = NoTrajectory
           /\ \A k \in 1..Len(cycle'.log) : cycle'.log[k].type # "trajectory"
           /\ thread_' = "end"]_vars

\* a cycle skipped on a command with a NaN component, after the node had
\* halted on stale commands
C30_Witness ==
  /\ thread_ = "end"
  /\ cycle.skipped
  /\ done_stopping_
  /\ \/ \E i \in 1..6 : isnan(twist_stamped_cmd_.twist[i])
     \/ \E j \in Joints : isnan(joint_servo_cmd_.velocities[j])

\* a cycle skipped on a twist out of the unitless range
C30_WitnessOutOfRange ==
  /\ thread_ = "end"
  /\ cycle.skipped
  /\ cycle.path = "cartesian"
  /\ \A i \in 1..6 : ~isnan(twist_stamped_cmd_.twist[i])

(***************************************************************************)
(* The node under every choice of the published fields                      *)
(***************************************************************************)
PublishFlagParameters ==
  {[DefaultParameters EXCEPT !.publish_joint_positions = positions,
                             !.publish_joint_velocities = velocities,
                             !.publish_joint_accelerations = accelerations] :
     positions \in BOOLEAN, velocities \in BOOLEAN, accelerations \in BOOLEAN}

InitPublishFlags == InitWith(PublishFlagParameters)

NextPublishFlags ==
  \/ \E t \in TwistCommands : twistStampedCB([stamp |-> Stamped, twist |-> t])
  \/ Tick
  \/ RobotMoves
  \/ LoopCondition
  \/ CycleBegin
  \/ Calc
  \/ Publish
  \/ Unlock
  \/ thread_ = "none" /\ StopRequest("start")
  \/ StopNotify
  \/ StopJoin
  \/ StartThread
  \/ StartClearFlag

SpecPublishFlags == InitPublishFlags /\ [][NextPublishFlags]_vars

\* C31: whatever fields the node publishes, filteredHalt stays within the
\* vectors of its trajectory point: no exception leaves a cycle, and the
\* worker thread is not terminated by one.
C31_FilteredHaltStaysWithinVectors ==
  thread_ # "terminated"

(***************************************************************************)
(* The look-ahead of the singularity scaling                                *)
(***************************************************************************)
\* singular vectors of either sign and commands along, against and across them
SingularVectors == {<<1, 0>>, <<-1, 0>>, <<0, 1>>, <<0, -1>>}
CommandedVelocities == {<<1, 0>>, <<-1, 0>>, <<0, 1>>, <<1, -1>>}

NextLookAhead ==
  \E commanded_velocity \in CommandedVelocities, svd_vector \in SingularVectors,
     ini_condition \in ConditionNumbers, new_condition \in ConditionNumbers :
    singularityLookAhead(commanded_velocity, svd_vector, ini_condition, new_condition)

SpecLookAhead == Init /\ [][NextLookAhead]_vars

\* the look-ahead has turned the sign of the singular vector
Flipped ==
  cycle.singularity[1].vector_toward_singularity =
    [d \in 1..2 |-> -cycle.singularity[1].svd_vector[d]]

C32_WitnessKept ==
  /\ cycle.singularity # <<>>
  /\ cycle.singularity[1].new_condition > cycle.singularity[1].ini_condition
  /\ ~Flipped

\* the velocity that filteredHalt computed for a joint in a halting cycle: the
\* filter's state is the smoothed position of that cycle
HaltVelocity(i) ==
  TruncDiv(smoother_[i] - original_joint_state_.position[i], publish_period)

\* C33: filteredHalt sets done_stopping_, and publishes velocities of exactly
\* 0, if and only if the velocity it computed for every joint is within
\* STOPPED_VELOCITY_EPS of 0 in absolute value.
C33_DoneStoppingIffAllJointsStopped ==
  (thread_ = "pub" /\ cycle.halt) =>
    /\ done_stopping_ <=> \A i \in Joints : Abs(HaltVelocity(i)) <= STOPPED_VELOCITY_EPS
    /\ done_stopping_ => joint_trajectory[1].velocities = Zeros(num_joints_)

(***************************************************************************)
(* The node with a number of halt messages and asked to republish forever   *)
(***************************************************************************)
InitHaltMessages == InitWith({DefaultParameters, RepublishForeverParameters})

NextHaltMessages ==
  \/ \E t \in TwistCommands : twistStampedCB([stamp |-> Stamped, twist |-> t])
  \/ Tick
  \/ RobotMoves
  \/ LoopCondition
  \/ CycleBegin
  \/ Calc
  \/ Publish
  \/ Unlock
  \/ thread_ = "none" /\ StopRequest("start")
  \/ StopNotify
  \/ StopJoin
  \/ StartThread
  \/ StartClearFlag

SpecHaltMessages == InitHaltMessages /\ [][NextHaltMessages]_vars

NamedJointJogCommands ==
  { [joint_names |-> <<"joint_2">>, velocities |-> <<1>>],
    [joint_names |-> <<"joint_2", "joint_1">>, velocities |-> <<1, -1>>],
    [joint_names |-> <<"joint_1", "gripper">>, velocities |-> <<-1, 1>>],
    [joint_names |-> <<"gripper">>, velocities |-> <<1>>] }

InitJointNames == InitWith({DefaultParameters, UnitlessParameters})

NextJointNames ==
  \/ \E jog \in NamedJointJogCommands :
       jointCmdCB([stamp |-> Stamped, joint_names |-> jog.joint_names,
                   velocities |-> jog.velocities])
  \/ Tick
  \/ RobotMoves
  \/ LoopCondition
  \/ CycleBegin
  \/ Calc
  \/ Publish
  \/ Unlock
  \/ thread_ = "none" /\ StopRequest("start")
  \/ StopNotify
  \/ StopJoin
  \/ StartThread
  \/ StartClearFlag

SpecJointNames == InitJointNames /\ [][NextJointNames]_vars

\* the names of the jog that the cycle works on, and the place of the last
\* entry that names joint c
JogNames(c) ==
  {m \in 1..Len(joint_servo_cmd_.joint_names) :
     joint_servo_cmd_.joint_names[m] = GroupJointNames[c]}
LastNaming(c) == CHOOSE m \in JogNames(c) : \A k \in JogNames(c) : k <= m

\* C35: for a joint jog with a velocity for each of its names,
\* scaleJointCommand returns a vector of exactly num_joints_ entries; the
\* entry of a named joint is its velocity times the publish period (times
\* joint_scale for unitless commands), the entry of a joint that is not named
\* is 0, and a name that is not a joint of the group neither lengthens the
\* vector nor has the cycle skipped.
C35_ScaledJogHasOneEntryPerJoint ==
  (thread_ \in {"pub", "end"} /\ cycle.path = "joint") =>
    LET result == scaleJointCommand(joint_servo_cmd_)
        scale == IF parameters.command_in_type = "unitless" THEN joint_scale ELSE 1
    IN  /\ Len(result) = num_joints_
        /\ \A c \in Joints :
             result[c] = IF JogNames(c) = {} THEN 0
                         ELSE joint_servo_cmd_.velocities[LastNaming(c)] * scale
                                * publish_period
        /\ ~cycle.skipped

\* a cycle has scaled a jog that names a joint of the group and a joint that
\* is not one, and has gone on to the publisher
C35_Witness ==
  /\ thread_ = "pub"
  /\ cycle.path = "joint"
  /\ joint_servo_cmd_.joint_names = <<"joint_1", "gripper">>
  /\ delta_theta_[1] # 0

\* a cycle has scaled a unitless jog that names joint 2 alone
C35_WitnessOneJoint ==
  /\ thread_ = "pub"
  /\ cycle.path = "joint"
  /\ parameters.command_in_type = "unitless"
  /\ joint_servo_cmd_.joint_names = <<"joint_2">>

\* the current state that the next call of the generator starts from
CurrentState(call) ==
  <<call.ruckig_input.current_position, call.ruckig_input.current_velocity,
    call.ruckig_input.current_acceleration>>

\* the pass of the while loop that was just made is an accepted step
AcceptedStep(call) ==
  /\ ~call.backward_motion_detected
  /\ call.ruckig_result \in {"Working", "Finished"}

\* C36: in the loop over one target, a pass appends a waypoint and feeds the
\* output of the generator back as the next current state only when the step
\* is accepted (no backward motion, result Working or Finished); after a step
\* that is not accepted the generator starts again from the same current
\* state; and the loop goes to the next target only after a step without
\* backward motion on which the generator reported Finished.
C36_OutputFedBackOnlyWhenAccepted ==
  [][ /\ (/\ smoothing.pc = "while"
          /\ smoothing'.pc = "while"
          /\ smoothing'.updates = smoothing.updates + 1) =>
         /\ (smoothing'.added = smoothing.added + 1) <=> AcceptedStep(smoothing')
         /\ ~AcceptedStep(smoothing') =>
               /\ smoothing'.added = smoothing.added
               /\ CurrentState(smoothing') = CurrentState(smoothing)
      /\ (/\ smoothing.pc = "while"
          /\ \/ smoothing'.pc = "returned" /\ smoothing'.returned = <<TRUE>>
             \/ smoothing'.waypoint_idx = smoothing.waypoint_idx + 1) =>
         /\ ~smoothing.backward_motion_detected
         /\ smoothing.ruckig_result = "Finished"
    ]_vars

(***************************************************************************)
(* A call of applySmoothing that is scheduled until it returns, with a      *)
(* generator that may return any result on any pass                         *)
(***************************************************************************)
NextSmoothingFair ==
  \/ \E argument \in Trajectories : applySmoothingBegin(argument)
  \/ \E result \in RuckigResults, new_velocity \in NewVelocities :
       whileLoop(result, new_velocity)
  \/ nextWaypoint

SpecSmoothingFair == Init /\ [][NextSmoothingFair]_vars /\ WF_vars(NextSmoothingFair)

\* C37: a call of applySmoothing that has reached the generator returns,
\* whatever the results of the generator.
C37_ApplySmoothingTerminates ==
  (smoothing.pc = "while") ~> (smoothing.pc = "returned")

\* C38: a cycle that reaches the decision on the publication adds one to
\* zero_velocity_count_, up to the largest int, when there is no nonzero
\* command and done_stopping_ is true, and sets it to 0 otherwise; no other
\* step changes it, a waiting, paused or skipped cycle included; and a count
\* above 0 is left only by a cycle in which both commands were stale.
C38_ZeroVelocityCountFollowsDecision ==
  [][ IF thread_ = "calc" /\ thread_' = "pub"
        THEN /\ zero_velocity_count_' =
                  IF ~have_nonzero_command_ /\ done_stopping_'
                    THEN IF zero_velocity_count_ = IntMax THEN IntMax
                         ELSE zero_velocity_count_ + 1
                    ELSE 0
             /\ zero_velocity_count_' > 0 =>
                  twist_command_is_stale_ /\ joint_command_is_stale_
        ELSE UNCHANGED zero_velocity_count_ ]_vars

\* the count of zero-velocity cycles stands at the largest int after a
\* halting cycle
C38_Witness ==
  /\ thread_ = "pub"
  /\ cycle.halt
  /\ done_stopping_
  /\ zero_velocity_count_ = IntMax

\* a cycle with a fresh command has reached the decision after halting cycles
\* were counted
C38_WitnessReset ==
  /\ thread_ = "pub"
  /\ ~cycle.halt
  /\ have_nonzero_command_
  /\ zero_velocity_count_ = 0
  /\ last_sent_command_ # NoTrajectory

(***************************************************************************)
(* A node whose callers send commands with a stamp and commands with stamp  *)
(* 0, and pause and unpause it                                              *)
(***************************************************************************)
NextPausedStamps ==
  \/ \E t \in TwistCommands, s \in Stamps : twistStampedCB([stamp |-> s, twist |-> t])
  \/ \E v \in JointJogCommands, s \in Stamps : jointCmdCB(JointJog(s, v))
  \/ \E p \in BOOLEAN : setPaused(p)
  \/ Tick
  \/ RobotMoves
  \/ LoopCondition
  \/ CycleBegin
  \/ Calc
  \/ Publish
  \/ Unlock
  \/ thread_ = "none" /\ StopRequest("start")
  \/ StopNotify
  \/ StopJoin
  \/ StartThread
  \/ StartClearFlag

SpecPausedStamps == Init /\ [][NextPausedStamps]_vars

C39_WitnessWaitsAgain ==
  /\ thread_ = "end"
  /\ cycle.paused_at_check
  /\ ~cycle.waiting_at_check
  /\ wait_for_servo_commands_

\* the status that the servo calculation of the cycle leaves: the last one
\* written in the order singularity, collision, joint bound
LastStatusWritten ==
  IF cycle.position_limits # <<>> /\ cycle.position_limits[1].joints_to_halt # {}
    THEN "JOINT_BOUND"
  ELSE IF cycle.collision_scale = 0 THEN "HALT_FOR_COLLISION"
  ELSE IF cycle.collision_scale < ScaleDen THEN "DECELERATE_FOR_COLLISION"
  ELSE IF cycle.singularity # <<>> THEN cycle.singularity[1].result.status
  ELSE "NO_WARNING"

\* C40: the status that a cycle with several events leaves is the last one
\* written in program order: JOINT_BOUND when joints are halted at a bound,
\* else the collision status when the collision scale is below 1, else the
\* singularity status of the Cartesian path; and the next cycle publishes the
\* status as it then stands.
C40_LastStatusWrittenIsLeft ==
  [][ /\ (thread_ = "calc" /\ thread_' = "pub"
            /\ cycle'.path \in {"cartesian", "joint"}) => status_' = LastStatusWritten'
      /\ (thread_ = "lock" /\ thread_' \in {"calc", "end"}) =>
            cycle'.log[1] = [type |-> "status", data |-> status_] ]_vars

\* a Cartesian cycle slowed for a singularity and for a collision leaves the
\* collision status
C40_Witness ==
  /\ thread_ = "pub"
  /\ cycle.path = "cartesian"
  /\ cycle.singularity # <<>>
  /\ cycle.singularity[1].result.status = "DECELERATE_FOR_SINGULARITY"
  /\ cycle.collision_scale > 0 /\ cycle.collision_scale < ScaleDen
  /\ status_ = "DECELERATE_FOR_COLLISION"

\* a cycle halted for a collision and at a joint bound leaves JOINT_BOUND
C40_WitnessJointBound ==
  /\ thread_ = "pub"
  /\ cycle.collision_scale < ScaleDen
  /\ status_ = "JOINT_BOUND"

\* the singularity status of a cycle without a collision or a bound is the one
\* that the next cycle publishes
C40_WitnessSingularityPublished ==
  /\ thread_ \in {"calc", "end"}
  /\ cycle.log # <<>>
  /\ cycle.log[1] = [type |-> "status", data |-> "HALT_FOR_SINGULARITY"]

====
